---- MODULE Spec2Model ----
(***************************************************************************)
(* Verification model of the sol-stake-backend core: the Redis-backed      *)
(* rate limiter (src/lib/rateLimit.ts), the repeatable-job scheduler       *)
(* (src/queues/scheduler.ts), the validator queue worker                   *)
(* (src/queues/validatorQueue.ts) and the fetch / score job handlers       *)
(* (src/workers/fetchValidators.ts, src/workers/scoringAllValidators.ts),  *)
(* the GraphQL cache (src/lib/cache.ts) with the resolvers that use it     *)
(* (src/api/resolvers/index.ts), the scoring code paths, the HTTP server's  *)
(* middleware chain with authentication and authorization                  *)
(* (src/server.ts, src/lib/auth.ts), and the upsert loop of the fetch job. *)
(***************************************************************************)
EXTENDS Integers, Sequences, FiniteSets, TLC

VARIABLES
  \* ---- rate limiter --------------------------------------------------
  now,        \* Date.now() / Redis clock, in ms
  rlMax,      \* finalConfig.maxRequests
  rlWindow,   \* finalConfig.windowMs
  rlSet,      \* scores of the key's sorted set, ascending (<<>> = no key)
  rlTtl,      \* absolute expiry deadline of the key in ms, -1 = no expiry
  rlPc,       \* per request: position inside rateLimitMiddleware
  rlT,        \* per request: the `now` captured at line 48
  rlCnt,      \* per request: currentCount
  rlRes,      \* per request: the RateLimitResult being returned
  rlErr,      \* per request: the store operation that threw ("none" if none)
  rlHist,     \* log of answered requests, in the order they were answered
  \* ---- scheduler -----------------------------------------------------
  repeatables, \* the queue's repeatable registrations (getRepeatableJobs)
  schPc,      \* per scheduler run: position inside the command
  schCmd,     \* per scheduler run: "setup" or "remove"
  schCfg,     \* per scheduler run: the SchedulerConfig passed to setup
  schJobs,    \* per scheduler run: listed jobs still to be visited by the loop
  schLog,     \* commands that have returned, in order
  schBefore,  \* per scheduler run: the registrations when the command began
  \* ---- queue worker and job handlers ----------------------------------
  tk,         \* per task: the queue's record of it (state, attemptsMade, ...)
  wk,         \* per task: position and locals of the processor running it
  att,        \* per task: what its current (or last) attempt did
  validators, \* Validator table: vote accounts stored
  auditLog,   \* AuditLog table
  scoringRuns, \* ScoringRun table
  trustScores, \* TrustScore table
  secondaryUp, \* whether a call to the secondary RPC endpoint succeeds
  \* ---- GraphQL cache ---------------------------------------------------
  gcNow,      \* the store's clock, in ms
  gcStore,    \* the store's string keys: records [key, text, deadline]
  gcCall,     \* per caller: the multi-command operation it is inside, with locals
  gcWrites,   \* log of the set calls made: what was passed and when
  gcHist,     \* log of the calls that have returned, with their results
  \* ---- scoring ---------------------------------------------------------
  sjTable,    \* Validator table as the scoring code reads it: rows [id, uptime, commission]
  sjRuns,     \* ScoringRun table
  sjScores,   \* TrustScore table, in order of creation
  sjJob,      \* per invocation of scoreAllValidatorsJob: position and locals
  fnIn,       \* a stored validator handed to one of the scoring code paths
  fnScores,   \* the TrustScore values those code paths persisted for it
  \* ---- HTTP server ------------------------------------------------------
  svWindows,  \* the rate limiter's keys: per key its sorted set and expiry deadline
  svSent,     \* per (source address, caller identity): times of its admitted requests
  svLast,     \* the request answered last, with what the chain did for it
  svCount,    \* requests answered so far
  \* ---- fetch job: the upsert loop -----------------------------------------
  fvList,     \* the vote accounts the RPC endpoint returns, in order
  fvTable,    \* Validator table: rows [voteAccount, validatorPubkey, commission, uptime]
  fvJob,      \* the running fetchValidators: position, index and counters
  fvAfter     \* the Validator table as each completed run left it

rlVars == <<now, rlMax, rlWindow, rlSet, rlTtl, rlPc, rlT, rlCnt, rlRes, rlErr, rlHist>>

schVars == <<repeatables, schPc, schCmd, schCfg, schJobs, schLog, schBefore>>

tkVars == <<tk, wk, att, validators, auditLog, scoringRuns, trustScores, secondaryUp>>

gcVars == <<gcNow, gcStore, gcCall, gcWrites, gcHist>>

sjVars == <<sjTable, sjRuns, sjScores, sjJob, fnIn, fnScores>>

svVars == <<svWindows, svSent, svLast, svCount>>

fvVars == <<fvList, fvTable, fvJob, fvAfter>>

vars == <<rlVars, schVars, tkVars, gcVars, sjVars, svVars, fvVars>>

(***************************************************************************)
(*                              RATE LIMITER                               *)
(***************************************************************************)

\* Bounds of the model
MaxTicks == 5      \* clock steps explored
MaxChecks == 4     \* requests answered per behaviour
MaxLimit == 2      \* largest maxRequests explored
NumReqs == 2       \* requests that can be in flight at once
MaxStoreErrors == 2 \* store failures injected per behaviour

ClockSteps == {500}            \* the clock advances in steps of 500 ms
WindowChoices == {1000, 1500}  \* windowMs values explored
Reqs == 1..NumReqs

NoResult == [allowed |-> TRUE, remaining |-> 0, resetTime |-> 0, retryAfter |-> 0]

\* Math.ceil(a / b) for b > 0, a of either sign (Math.ceil(-0.5) is 0)
CeilDiv(a, b) == -((-a) \div b)

\* redis.zrangebyscore(key, windowStart, '+inf')
ZRangeByScoreGt(set, lo) == SelectSeq(set, LAMBDA s : s > lo)
ZRangeByScore(set, lo) == SelectSeq(set, LAMBDA s : s >= lo)

\* redis.zadd(key, score, member): members are unique, the set stays ordered by score
ZAdd(set, s) ==
  LET k == Cardinality({i \in 1..Len(set) : set[i] <= s})
  IN  SubSeq(set, 1, k) \o <<s>> \o SubSeq(set, k + 1, Len(set))

\* redis.expire(key, Math.ceil(windowMs / 1000)): the deadline it sets, in ms
ExpireDeadline(at, windowMs) == at + CeilDiv(windowMs, 1000) * 1000

\* the rejection branch, lines 58-70
RejectResult(set, t, windowMs) ==
  LET resetTime == IF Len(set) > 0 THEN set[1] + windowMs ELSE t + windowMs
  IN  [allowed |-> FALSE, remaining |-> 0, resetTime |-> resetTime,
       retryAfter |-> CeilDiv(resetTime - t, 1000)]

\* the admission result, lines 79-83
AdmitResult(t, cnt, maxRequests, windowMs) ==
  [allowed |-> TRUE, remaining |-> maxRequests - cnt - 1,
   resetTime |-> t + windowMs, retryAfter |-> 0]

\* the catch branch, lines 84-92
CatchResultClosed(t, maxRequests, windowMs) ==
  [allowed |-> FALSE, remaining |-> 0, resetTime |-> t + windowMs, retryAfter |-> 0]
CatchResult(t, maxRequests, windowMs) ==
  [allowed |-> TRUE, remaining |-> maxRequests, resetTime |-> t + windowMs,
   retryAfter |-> 0]

\* rateLimitMiddleware: what it does with the result
MiddlewareOutcomeNext(res) == "next"
MiddlewareOutcome(res) == IF res.allowed THEN "next" ELSE "429"

RLInit ==
  /\ now = 0
  /\ rlMax \in 1..MaxLimit
  /\ rlWindow \in WindowChoices
  /\ rlSet = <<>>
  /\ rlTtl = -1
  /\ rlPc = [p \in Reqs |-> "idle"]
  /\ rlT = [p \in Reqs |-> 0]
  /\ rlCnt = [p \in Reqs |-> 0]
  /\ rlRes = [p \in Reqs |-> NoResult]
  /\ rlErr = [p \in Reqs |-> "none"]
  /\ rlHist = <<>>

RLAllIdle == \A p \in Reqs : rlPc[p] = "idle"
RLInFlight == Cardinality({p \in Reqs : rlPc[p] # "idle"})

\* the clock moves; Redis drops a key whose deadline has passed (now > deadline)
RLAdvance ==
  /\ now < MaxTicks * 500
  /\ \E d \in ClockSteps :
       /\ now' = now + d
       /\ IF rlTtl # -1 /\ now + d > rlTtl
            THEN rlSet' = <<>> /\ rlTtl' = -1
            ELSE UNCHANGED <<rlSet, rlTtl>>
  /\ UNCHANGED <<rlMax, rlWindow, rlPc, rlT, rlCnt, rlRes, rlErr, rlHist>>
  /\ UNCHANGED <<schVars, tkVars, gcVars, sjVars, svVars, fvVars>>

\* a request enters the middleware: lines 46-49
RLStart(p) ==
  /\ rlPc[p] = "idle"
  /\ Len(rlHist) + RLInFlight < MaxChecks
  /\ rlPc' = [rlPc EXCEPT ![p] = "count"]
  /\ rlT' = [rlT EXCEPT ![p] = now]
  /\ UNCHANGED <<now, rlMax, rlWindow, rlSet, rlTtl, rlCnt, rlRes, rlErr, rlHist>>
  /\ UNCHANGED <<schVars, tkVars, gcVars, sjVars, svVars, fvVars>>

\* lines 53-56: count the entries of the window and branch
RLCount(p) ==
  /\ rlPc[p] = "count"
  /\ LET cnt == Len(ZRangeByScore(rlSet, rlT[p] - rlWindow))
     IN  /\ rlCnt' = [rlCnt EXCEPT ![p] = cnt]
         /\ rlPc' = [rlPc EXCEPT ![p] = IF cnt >= rlMax THEN "oldest" ELSE "zadd"]
  /\ UNCHANGED <<now, rlMax, rlWindow, rlSet, rlTtl, rlT, rlRes, rlErr, rlHist>>
  /\ UNCHANGED <<schVars, tkVars, gcVars, sjVars, svVars, fvVars>>

\* lines 58-70: read the oldest entry and reject
RLOldest(p) ==
  /\ rlPc[p] = "oldest"
  /\ rlRes' = [rlRes EXCEPT ![p] = RejectResult(rlSet, rlT[p], rlWindow)]
  /\ rlPc' = [rlPc EXCEPT ![p] = "respond"]
  /\ UNCHANGED <<now, rlMax, rlWindow, rlSet, rlTtl, rlT, rlCnt, rlErr, rlHist>>
  /\ UNCHANGED <<schVars, tkVars, gcVars, sjVars, svVars, fvVars>>

\* line 74: record the request
RLZAdd(p) ==
  /\ rlPc[p] = "zadd"
  /\ rlSet' = ZAdd(rlSet, rlT[p])
  /\ rlPc' = [rlPc EXCEPT ![p] = "expire"]
  /\ UNCHANGED <<now, rlMax, rlWindow, rlTtl, rlT, rlCnt, rlRes, rlErr, rlHist>>
  /\ UNCHANGED <<schVars, tkVars, gcVars, sjVars, svVars, fvVars>>

\* lines 77-83: refresh the key's expiry and admit
RLExpire(p) ==
  /\ rlPc[p] = "expire"
  /\ rlTtl' = IF rlSet = <<>> THEN rlTtl ELSE ExpireDeadline(now, rlWindow)
  /\ rlRes' = [rlRes EXCEPT ![p] = AdmitResult(rlT[p], rlCnt[p], rlMax, rlWindow)]
  /\ rlPc' = [rlPc EXCEPT ![p] = "respond"]
  /\ UNCHANGED <<now, rlMax, rlWindow, rlSet, rlT, rlCnt, rlErr, rlHist>>
  /\ UNCHANGED <<schVars, tkVars, gcVars, sjVars, svVars, fvVars>>

\* lines 84-92: a store operation throws and the catch branch answers
RLStoreError(p) ==
  /\ rlPc[p] \in {"count", "oldest", "zadd", "expire"}
  /\ Cardinality({i \in 1..Len(rlHist) : rlHist[i].err # "none"}) < MaxStoreErrors
  /\ rlErr' = [rlErr EXCEPT ![p] = rlPc[p]]
  /\ rlRes' = [rlRes EXCEPT ![p] = CatchResult(rlT[p], rlMax, rlWindow)]
  /\ rlPc' = [rlPc EXCEPT ![p] = "respond"]
  /\ UNCHANGED <<now, rlMax, rlWindow, rlSet, rlTtl, rlT, rlCnt, rlHist>>
  /\ UNCHANGED <<schVars, tkVars, gcVars, sjVars, svVars, fvVars>>

\* rateLimitMiddleware, lines 208-230: answer 429 or call next()
RLRespond(p) ==
  /\ rlPc[p] = "respond"
  /\ rlHist' = Append(rlHist,
       [t |-> rlT[p], allowed |-> rlRes[p].allowed, remaining |-> rlRes[p].remaining,
        resetTime |-> rlRes[p].resetTime, retryAfter |-> rlRes[p].retryAfter,
        err |-> rlErr[p], out |-> MiddlewareOutcome(rlRes[p])])
  /\ rlPc' = [rlPc EXCEPT ![p] = "idle"]
  /\ rlT' = [rlT EXCEPT ![p] = 0]
  /\ rlCnt' = [rlCnt EXCEPT ![p] = 0]
  /\ rlRes' = [rlRes EXCEPT ![p] = NoResult]
  /\ rlErr' = [rlErr EXCEPT ![p] = "none"]
  /\ UNCHANGED <<now, rlMax, rlWindow, rlSet, rlTtl>>
  /\ UNCHANGED <<schVars, tkVars, gcVars, sjVars, svVars, fvVars>>

\* checks run one at a time (one request slot) and take no time
SeqReqs == {1}
RLSeqStart(p) == RLAllIdle /\ RLStart(p)
RLSeqAdvance == RLAllIdle /\ RLAdvance

RLSteps(p) == RLCount(p) \/ RLOldest(p) \/ RLZAdd(p) \/ RLExpire(p) \/ RLRespond(p)


(***************************************************************************)
(*                               SCHEDULER                                 *)
(***************************************************************************)

MaxSchedCalls == 3   \* scheduler commands run per behaviour
NumScheds == 2       \* scheduler processes that can run at once

Scheds == 1..NumScheds

\* the age values are kept in thousands (age / 1000): 30 * 24 * 60 * 60 * 1000
\* does not fit TLC's 32-bit integers
TEST_CONFIG ==
  [mode |-> "test", fetchInterval |-> 30000, scoreInterval |-> 60000,
   removeOnComplete |-> 60 * 60, removeOnFail |-> 24 * 60 * 60]
PRODUCTION_CONFIG ==
  [mode |-> "production", fetchInterval |-> 6 * 60 * 60 * 1000,
   scoreInterval |-> 6 * 60 * 60 * 1000,
   removeOnComplete |-> 7 * 24 * 60 * 60,
   removeOnFail |-> 30 * 24 * 60 * 60]
Configs == {TEST_CONFIG, PRODUCTION_CONFIG}

\* the key under which the queue stores a repeatable registration: job name,
\* jobId and interval, so a registration with another interval is another entry
RepeatKey(name, jobId, every) == <<name, jobId, every>>

\* validatorQueue.add(name, {}, {jobId, repeat: {every}, removeOnComplete, removeOnFail, priority})
Registration(name, jobId, every, cfg, priority) ==
  [key |-> RepeatKey(name, jobId, every), name |-> name, id |-> jobId, every |-> every,
   removeOnComplete |-> cfg.removeOnComplete, removeOnFail |-> cfg.removeOnFail,
   priority |-> priority]

\* adding under an existing key replaces that entry, it never duplicates it
AddRepeatable(regs, r) == {x \in regs : x.key # r.key} \union {r}

\* validatorQueue.removeRepeatableByKey(key); an unknown key removes nothing
RemoveRepeatableByKey(regs, key) == {x \in regs : x.key # key}

\* the filter of setup's clearing loop, line 63
IsSchedulerJobFetchOnly(job) == job.id = "fetch-repeatable"
IsSchedulerJob(job) == job.id = "fetch-repeatable" \/ job.id = "score-repeatable"

SchInit ==
  /\ repeatables = {}
  /\ schPc = [s \in Scheds |-> "idle"]
  /\ schCmd = [s \in Scheds |-> "none"]
  /\ schCfg = [s \in Scheds |-> TEST_CONFIG]
  /\ schJobs = [s \in Scheds |-> {}]
  /\ schLog = <<>>
  /\ schBefore = [s \in Scheds |-> {}]

SchAllIdle == \A s \in Scheds : schPc[s] = "idle"
SchRunning == Cardinality({s \in Scheds : schPc[s] # "idle"})

\* main(): `setup test`, `setup production` or `remove` is invoked
SchStart(s) ==
  /\ schPc[s] = "idle"
  /\ Len(schLog) + SchRunning < MaxSchedCalls
  /\ \E cmd \in {"setup", "remove"}, cfg \in Configs :
       /\ cmd = "remove" => cfg = TEST_CONFIG
       /\ schCmd' = [schCmd EXCEPT ![s] = cmd]
       /\ schCfg' = [schCfg EXCEPT ![s] = cfg]
  /\ schPc' = [schPc EXCEPT ![s] = "list"]
  /\ UNCHANGED <<repeatables, schJobs, schLog>>
  /\ schBefore' = [schBefore EXCEPT ![s] = repeatables]
  /\ UNCHANGED <<rlVars, tkVars, gcVars, sjVars, svVars, fvVars>>

\* line 60 / line 165: getRepeatableJobs()
SchList(s) ==
  /\ schPc[s] = "list"
  /\ schJobs' = [schJobs EXCEPT ![s] = repeatables]
  /\ schPc' = [schPc EXCEPT ![s] = "clear"]
  /\ UNCHANGED <<repeatables, schCmd, schCfg, schLog>>
  /\ UNCHANGED schBefore
  /\ UNCHANGED <<rlVars, tkVars, gcVars, sjVars, svVars, fvVars>>

\* one iteration of the loop of lines 62-67 (setup) or 167-170 (remove)
SchClearOne(s) ==
  /\ schPc[s] = "clear"
  /\ \E job \in schJobs[s] :
       /\ schJobs' = [schJobs EXCEPT ![s] = schJobs[s] \ {job}]
       /\ repeatables' =
            IF schCmd[s] = "remove" \/ IsSchedulerJob(job)
              THEN RemoveRepeatableByKey(repeatables, job.key)
              ELSE repeatables
  /\ UNCHANGED <<schPc, schCmd, schCfg, schLog>>
  /\ UNCHANGED schBefore
  /\ UNCHANGED <<rlVars, tkVars, gcVars, sjVars, svVars, fvVars>>

\* the loop ends; removeRepeatableJobs returns, setup goes on to add
SchClearDone(s) ==
  /\ schPc[s] = "clear"
  /\ schJobs[s] = {}
  /\ IF schCmd[s] = "remove"
       THEN /\ schPc' = [schPc EXCEPT ![s] = "idle"]
            /\ schLog' = Append(schLog, [cmd |-> "remove", mode |-> "none"])
            /\ schBefore' = [schBefore EXCEPT ![s] = {}]
       ELSE /\ schPc' = [schPc EXCEPT ![s] = "addFetch"]
            /\ UNCHANGED <<schLog, schBefore>>
  /\ UNCHANGED <<repeatables, schCmd, schCfg, schJobs>>
  /\ UNCHANGED <<rlVars, tkVars, gcVars, sjVars, svVars, fvVars>>

\* lines 71-77
SchAddFetch(s) ==
  /\ schPc[s] = "addFetch"
  /\ repeatables' = AddRepeatable(repeatables,
       Registration("fetch", "fetch-repeatable", schCfg[s].fetchInterval, schCfg[s], 1))
  /\ schPc' = [schPc EXCEPT ![s] = "addScore"]
  /\ UNCHANGED <<schCmd, schCfg, schJobs, schLog>>
  /\ UNCHANGED schBefore
  /\ UNCHANGED <<rlVars, tkVars, gcVars, sjVars, svVars, fvVars>>

\* lines 82-88, and the read-only reporting of lines 92-119
SchAddScore(s) ==
  /\ schPc[s] = "addScore"
  /\ repeatables' = AddRepeatable(repeatables,
       Registration("score", "score-repeatable", schCfg[s].scoreInterval, schCfg[s], 2))
  /\ schPc' = [schPc EXCEPT ![s] = "idle"]
  /\ schLog' = Append(schLog, [cmd |-> "setup", mode |-> schCfg[s].mode])
  /\ UNCHANGED <<schCmd, schCfg, schJobs>>
  /\ schBefore' = [schBefore EXCEPT ![s] = {}]
  /\ UNCHANGED <<rlVars, tkVars, gcVars, sjVars, svVars, fvVars>>

\* a queue operation of the command throws. setup's catch logs the error and
\* throws it again (lines 121-127); removeRepeatableJobs' catch logs it and
\* returns (lines 175-180). Neither undoes the operations already made
SchThrow(s) ==
  /\ schPc[s] \in {"list", "clear", "addFetch", "addScore"}
  /\ schPc[s] = "clear" => schJobs[s] # {}
  /\ schPc' = [schPc EXCEPT ![s] = "idle"]
  /\ schLog' = Append(schLog,
       [cmd |-> IF schCmd[s] = "setup" THEN "setup-threw" ELSE "remove-failed",
        mode |-> IF schCmd[s] = "setup" THEN schCfg[s].mode ELSE "none"])
  /\ schBefore' = [schBefore EXCEPT ![s] = {}]
  /\ UNCHANGED <<repeatables, schCmd, schCfg, schJobs>>
  /\ UNCHANGED <<rlVars, tkVars, gcVars, sjVars, svVars, fvVars>>

SchSteps(s) ==
  SchList(s) \/ SchClearOne(s) \/ SchClearDone(s) \/ SchAddFetch(s) \/ SchAddScore(s)

\* scheduler commands run one after another (one process)
SeqScheds == {1}
SchSeqStart(s) == SchAllIdle /\ SchStart(s)


(***************************************************************************)
(*                     QUEUE WORKER AND JOB HANDLERS                       *)
(***************************************************************************)

NumRecords == 2      \* vote accounts the RPC endpoints return

\* one fetch task and one score task, as the two repeatable jobs produce them
Tasks == {"fetch", "score"}
Records == 1..NumRecords

Attempts == 3            \* defaultJobOptions.attempts
BackoffDelayMs == 2000   \* defaultJobOptions.backoff.delay
Concurrency == 3         \* worker option concurrency
FetchRetries == 2        \* retryWithBackoff: retries
FetchDelayMs == 1000     \* retryWithBackoff: delayMs

\* defaultJobOptions.backoff {type: 'exponential', delay}: the wait before the
\* retry that follows failed attempt number attemptsMade
BackoffDelayFixed(attemptsMade) == BackoffDelayMs
BackoffDelay(attemptsMade) == BackoffDelayMs * 2^(attemptsMade - 1)

\* retryWithBackoff lines 26-28: the wait after failed call number attempt
BackoffTimeFixed(attempt) == FetchDelayMs
BackoffTime(attempt) == FetchDelayMs * 2^(attempt - 1)

\* the test of fetchValidators line 51 on the error retryWithBackoff threw
IsRateLimitNever(err) == FALSE
IsRateLimit(err) == err = "rate"

\* ensurePrismaConnection: "ready" when it returns, "unavailable" when it throws
EnsureConnectionAlwaysReady(probeOk, reconnectOk) == "ready"
EnsureConnection(probeOk, reconnectOk) ==
  IF probeOk THEN "ready" ELSE IF reconnectOk THEN "ready" ELSE "unavailable"

\* what one call of connection.getVoteAccounts() on an endpoint can do
CallOutcomes(endpoint) ==
  IF endpoint = "primary" THEN {"ok", "rate", "other"}
  ELSE IF secondaryUp THEN {"ok"} ELSE {"rate", "other"}

NewTask == [state |-> "waiting", attemptsMade |-> 0, activations |-> 0,
            failedEvents |-> 0, delays |-> <<>>]
IdleWorker == [pc |-> "idle", endpoint |-> "none", tries |-> 0, read |-> {},
               run |-> <<>>, thrown |-> "none"]
NewAttempt == [probe1 |-> "none", reconnects |-> 0, probe2 |-> "none",
               handler |-> FALSE, primaryCalls |-> 0, secondaryCalls |-> 0,
               primaryWaits |-> <<>>, secondaryWaits |-> <<>>,
               primaryErr |-> "none", fetchFailed |-> FALSE, fetched |-> FALSE,
               upserted |-> {}, rejected |-> {}, outcome |-> "none", error |-> "none"]

TkInit ==
  /\ tk = [j \in Tasks |-> NewTask]
  /\ wk = [j \in Tasks |-> IdleWorker]
  /\ att = [j \in Tasks |-> NewAttempt]
  /\ validators = {}
  /\ auditLog = {}
  /\ scoringRuns = {}
  /\ trustScores = {}

ActiveTasks == {j \in DOMAIN tk : tk[j].state = "active"}

\* worker option concurrency: the worker takes another task only while fewer
\* than `concurrency` of its tasks are active
HasFreeSlotAlways(active) == TRUE
HasFreeSlot(active) == Cardinality(active) < Concurrency

\* prisma.auditLog.create; the task name and the attempt stand for the entry's
\* metadata and timestamp
AuditEntry(action, j) == [action |-> action, task |-> j, attempt |-> tk[j].activations]

\* the worker takes a waiting task: waiting -> active
WActivate(j) ==
  /\ tk[j].state = "waiting"
  /\ HasFreeSlot(ActiveTasks)
  /\ tk' = [tk EXCEPT ![j].state = "active", ![j].activations = @ + 1]
  /\ wk' = [wk EXCEPT ![j] = [IdleWorker EXCEPT !.pc = "probe"]]
  /\ att' = [att EXCEPT ![j] = NewAttempt]
  /\ UNCHANGED <<validators, auditLog, scoringRuns, trustScores, secondaryUp>>
  /\ UNCHANGED <<rlVars, schVars, gcVars, sjVars, svVars, fvVars>>

\* ensurePrismaConnection, lines 419-422: the first SELECT 1
WProbe(j) ==
  /\ wk[j].pc = "probe"
  /\ \E ok \in BOOLEAN :
       /\ att' = [att EXCEPT ![j].probe1 = IF ok THEN "ok" ELSE "failed"]
       /\ wk' = [wk EXCEPT ![j].pc = IF ok THEN "dispatch" ELSE "reconnect"]
  /\ UNCHANGED <<tk, validators, auditLog, scoringRuns, trustScores, secondaryUp>>
  /\ UNCHANGED <<rlVars, schVars, gcVars, sjVars, svVars, fvVars>>

\* ensurePrismaConnection, lines 426-440: $disconnect, $connect, SELECT 1 again;
\* ok = all three succeeded
WReconnect(j) ==
  /\ wk[j].pc = "reconnect"
  /\ \E ok \in BOOLEAN :
       /\ att' = [att EXCEPT ![j].reconnects = @ + 1,
                             ![j].probe2 = IF ok THEN "ok" ELSE "failed"]
       /\ wk' = IF EnsureConnection(FALSE, ok) = "ready"
                  THEN [wk EXCEPT ![j].pc = "dispatch"]
                  ELSE [wk EXCEPT ![j].pc = "jobCatch",
                                  ![j].thrown = "Database connection unavailable"]
  /\ UNCHANGED <<tk, validators, auditLog, scoringRuns, trustScores, secondaryUp>>
  /\ UNCHANGED <<rlVars, schVars, gcVars, sjVars, svVars, fvVars>>

\* the switch of lines 491-506: the handler of the task's type is invoked
WDispatch(j) ==
  /\ wk[j].pc = "dispatch"
  /\ att' = [att EXCEPT ![j].handler = TRUE]
  /\ wk' = IF j = "fetch"
             THEN [wk EXCEPT ![j].pc = "fetchCall", ![j].endpoint = "primary", ![j].tries = 0]
             ELSE [wk EXCEPT ![j].pc = "scoreFind"]
  /\ UNCHANGED <<tk, validators, auditLog, scoringRuns, trustScores, secondaryUp>>
  /\ UNCHANGED <<rlVars, schVars, gcVars, sjVars, svVars, fvVars>>

\* fetchValidators lines 48-57 with retryWithBackoff lines 13-35: one call of
\* fetchValidatorsFromRPC and what follows its failure
FetchCall(j) ==
  /\ wk[j].pc = "fetchCall"
  /\ \E out \in CallOutcomes(wk[j].endpoint) :
       LET e == wk[j].endpoint
           attempt == wk[j].tries + 1
           counted == IF e = "primary"
                        THEN [att EXCEPT ![j].primaryCalls = @ + 1]
                        ELSE [att EXCEPT ![j].secondaryCalls = @ + 1]
       IN  IF out = "ok"
             THEN /\ wk' = [wk EXCEPT ![j].pc = "upsert"]
                  /\ att' = [counted EXCEPT ![j].fetched = TRUE]
             ELSE IF attempt <= FetchRetries
               THEN \* back off delayMs * 2^(attempt - 1), then call again
                    /\ wk' = [wk EXCEPT ![j].tries = attempt]
                    /\ att' = IF e = "primary"
                                THEN [counted EXCEPT ![j].primaryWaits =
                                                       Append(@, BackoffTime(attempt))]
                                ELSE [counted EXCEPT ![j].secondaryWaits =
                                                       Append(@, BackoffTime(attempt))]
               ELSE IF e = "primary" /\ IsRateLimit(out)
                 THEN /\ wk' = [wk EXCEPT ![j].endpoint = "secondary", ![j].tries = 0]
                      /\ att' = [counted EXCEPT ![j].primaryErr = out]
                 ELSE /\ wk' = [wk EXCEPT ![j].pc = "fetchCatch", ![j].thrown = out]
                      /\ att' = [counted EXCEPT
                                   ![j].primaryErr = IF e = "primary" THEN out ELSE @,
                                   ![j].fetchFailed = TRUE]
  /\ UNCHANGED <<tk, validators, auditLog, scoringRuns, trustScores, secondaryUp>>
  /\ UNCHANGED <<rlVars, schVars, gcVars, sjVars, svVars, fvVars>>

\* fetchValidators lines 59-92: every record is parsed and upserted; the records
\* in bad fail validation or the upsert and are counted in failCount
FetchUpsert(j) ==
  /\ wk[j].pc = "upsert"
  /\ \E bad \in SUBSET Records :
       /\ validators' = validators \union (Records \ bad)
       /\ att' = [att EXCEPT ![j].upserted = Records \ bad, ![j].rejected = bad]
  /\ wk' = [wk EXCEPT ![j].pc = "fetchFinally"]
  /\ UNCHANGED <<tk, auditLog, scoringRuns, trustScores, secondaryUp>>
  /\ UNCHANGED <<rlVars, schVars, gcVars, sjVars, svVars, fvVars>>

\* fetchValidators lines 93-101: the catch writes an AuditEntry and does not
\* rethrow; only a failure of that write leaves the handler as an exception
FetchCatch(j) ==
  /\ wk[j].pc = "fetchCatch"
  /\ \E ok \in BOOLEAN :
       IF ok
         THEN /\ auditLog' = auditLog \union {AuditEntry("VALIDATOR_FETCH_FAILED", j)}
              /\ wk' = [wk EXCEPT ![j].pc = "fetchFinally", ![j].thrown = "none"]
         ELSE /\ auditLog' = auditLog
              /\ wk' = [wk EXCEPT ![j].pc = "fetchFinally", ![j].thrown = "audit write failed"]
  /\ UNCHANGED <<tk, att, validators, scoringRuns, trustScores, secondaryUp>>
  /\ UNCHANGED <<rlVars, schVars, gcVars, sjVars, svVars, fvVars>>

\* fetchValidators lines 102-104: prisma.$disconnect(), then return or propagate
FetchFinally(j) ==
  /\ wk[j].pc = "fetchFinally"
  /\ wk' = [wk EXCEPT ![j].pc = IF wk[j].thrown = "none" THEN "jobReturn" ELSE "jobCatch"]
  /\ UNCHANGED <<tk, att, validators, auditLog, scoringRuns, trustScores, secondaryUp>>
  /\ UNCHANGED <<rlVars, schVars, gcVars, sjVars, svVars, fvVars>>

\* scoreAllValidatorsJob lines 40-53: read the validators; none -> return
ScoreFind(j) ==
  /\ wk[j].pc = "scoreFind"
  /\ \E ok \in BOOLEAN :
       IF ok
         THEN wk' = [wk EXCEPT ![j].read = validators,
                               ![j].pc = IF validators = {} THEN "jobReturn"
                                         ELSE "scoreCreateRun"]
         ELSE wk' = [wk EXCEPT ![j].pc = "scoreCatch", ![j].thrown = "findMany failed"]
  /\ UNCHANGED <<tk, att, validators, auditLog, scoringRuns, trustScores, secondaryUp>>
  /\ UNCHANGED <<rlVars, schVars, gcVars, sjVars, svVars, fvVars>>

\* scoreAllValidatorsJob lines 58-67: create the ScoringRun
ScoreCreateRun(j) ==
  /\ wk[j].pc = "scoreCreateRun"
  /\ \E ok \in BOOLEAN :
       IF ok
         THEN /\ scoringRuns' = scoringRuns \union {<<j, tk[j].activations>>}
              /\ wk' = [wk EXCEPT ![j].run = <<j, tk[j].activations>>,
                                  ![j].pc = "scoreBatches"]
         ELSE /\ scoringRuns' = scoringRuns
              /\ wk' = [wk EXCEPT ![j].pc = "scoreCatch",
                                  ![j].thrown = "scoringRun.create failed"]
  /\ UNCHANGED <<tk, att, validators, auditLog, trustScores, secondaryUp>>
  /\ UNCHANGED <<rlVars, schVars, gcVars, sjVars, svVars, fvVars>>

\* scoreAllValidatorsJob lines 76-145: the batches; the validators in bad fail
\* and are counted in failCount, the others get a TrustScore of this run
ScoreBatches(j) ==
  /\ wk[j].pc = "scoreBatches"
  /\ \E bad \in SUBSET wk[j].read :
       trustScores' = trustScores \union
         {[validatorId |-> v, scoringRunId |-> wk[j].run] : v \in wk[j].read \ bad}
  /\ wk' = [wk EXCEPT ![j].pc = "jobReturn"]
  /\ UNCHANGED <<tk, att, validators, auditLog, scoringRuns, secondaryUp>>
  /\ UNCHANGED <<rlVars, schVars, gcVars, sjVars, svVars, fvVars>>

\* scoreAllValidatorsJob lines 182-206: audit (its own failure is swallowed), rethrow
ScoreCatch(j) ==
  /\ wk[j].pc = "scoreCatch"
  /\ \E ok \in BOOLEAN :
       auditLog' = IF ok THEN auditLog \union {AuditEntry("SCORING_JOB_FAILED", j)}
                   ELSE auditLog
  /\ wk' = [wk EXCEPT ![j].pc = "jobCatch"]
  /\ UNCHANGED <<tk, att, validators, scoringRuns, trustScores, secondaryUp>>
  /\ UNCHANGED <<rlVars, schVars, gcVars, sjVars, svVars, fvVars>>

\* processor lines 511-535: audit JOB_FAILED (its own failure is swallowed) and
\* rethrow; the queue then counts the attempt and either delays the task for a
\* retry (attempts, backoff of defaultJobOptions) or fails it for good
JobCatch(j) ==
  /\ wk[j].pc = "jobCatch"
  /\ \E ok \in BOOLEAN :
       auditLog' = IF ok THEN auditLog \union {AuditEntry("JOB_FAILED", j)} ELSE auditLog
  /\ LET made == tk[j].attemptsMade + 1
     IN  tk' = IF made < Attempts
                 THEN [tk EXCEPT ![j].attemptsMade = made, ![j].failedEvents = @ + 1,
                                 ![j].state = "delayed",
                                 ![j].delays = Append(@, BackoffDelay(made))]
                 ELSE [tk EXCEPT ![j].attemptsMade = made, ![j].failedEvents = @ + 1,
                                 ![j].state = "failed"]
  /\ att' = [att EXCEPT ![j].outcome = "threw", ![j].error = wk[j].thrown]
  /\ wk' = [wk EXCEPT ![j] = IdleWorker]
  /\ UNCHANGED <<validators, scoringRuns, trustScores, secondaryUp>>
  /\ UNCHANGED <<rlVars, schVars, gcVars, sjVars, svVars, fvVars>>

\* processor lines 508-509: the processor returns and the queue completes the task
JobReturn(j) ==
  /\ wk[j].pc = "jobReturn"
  /\ tk' = [tk EXCEPT ![j].state = "completed"]
  /\ att' = [att EXCEPT ![j].outcome = "returned"]
  /\ wk' = [wk EXCEPT ![j] = IdleWorker]
  /\ UNCHANGED <<validators, auditLog, scoringRuns, trustScores, secondaryUp>>
  /\ UNCHANGED <<rlVars, schVars, gcVars, sjVars, svVars, fvVars>>

\* the backoff delay of a delayed task has passed: delayed -> waiting
Promote(j) ==
  /\ tk[j].state = "delayed"
  /\ tk' = [tk EXCEPT ![j].state = "waiting"]
  /\ att' = [att EXCEPT ![j] = NewAttempt]
  /\ UNCHANGED <<wk, validators, auditLog, scoringRuns, trustScores, secondaryUp>>
  /\ UNCHANGED <<rlVars, schVars, gcVars, sjVars, svVars, fvVars>>

\* ---- the worker's slots under a backlog ---------------------------------------
NumPoolTasks == 4    \* tasks the queue comes to hold

PoolTasks == 1..NumPoolTasks

PoolInit ==
  /\ tk = [j \in PoolTasks |-> NewTask]
  /\ wk = [j \in PoolTasks |-> IdleWorker]
  /\ att = [j \in PoolTasks |-> NewAttempt]
  /\ validators = {}
  /\ auditLog = {}
  /\ scoringRuns = {}
  /\ trustScores = {}

\* the processor of an active task runs to its end (its steps are those of
\* TaskStep) and the queue takes the task out of active: completed when the
\* processor returned; delayed for a retry, or failed, when it threw
PoolSettle(j, ok) ==
  /\ tk[j].state = "active"
  /\ LET made == tk[j].attemptsMade + 1
     IN  tk' = IF ok THEN [tk EXCEPT ![j].state = "completed"]
               ELSE IF made < Attempts
                 THEN [tk EXCEPT ![j].attemptsMade = made, ![j].failedEvents = @ + 1,
                                 ![j].state = "delayed",
                                 ![j].delays = Append(@, BackoffDelay(made))]
                 ELSE [tk EXCEPT ![j].attemptsMade = made, ![j].failedEvents = @ + 1,
                                 ![j].state = "failed"]
  /\ att' = [att EXCEPT ![j].outcome = IF ok THEN "returned" ELSE "threw"]
  /\ wk' = [wk EXCEPT ![j] = IdleWorker]
  /\ UNCHANGED <<validators, auditLog, scoringRuns, trustScores, secondaryUp>>
  /\ UNCHANGED <<rlVars, schVars, gcVars, sjVars, svVars, fvVars>>

TaskStep(j) ==
  \/ WActivate(j) \/ WProbe(j) \/ WReconnect(j) \/ WDispatch(j)
  \/ FetchCall(j) \/ FetchUpsert(j) \/ FetchCatch(j) \/ FetchFinally(j)
  \/ ScoreFind(j) \/ ScoreCreateRun(j) \/ ScoreBatches(j) \/ ScoreCatch(j)
  \/ JobCatch(j) \/ JobReturn(j) \/ Promote(j)

(***************************************************************************)
(*                             GRAPHQL CACHE                               *)
(***************************************************************************)

MaxCacheCalls == 3     \* get and set calls made in one behaviour, one at a time
MaxOpsCalls == 2       \* calls made in one behaviour when callers interleave
MaxStaleCalls == 3     \* queries and invalidations made in one behaviour
MaxCacheTicks == 3     \* steps the store's clock takes in one behaviour

defaultTTL == 300      \* GraphQLCache.defaultTTL, seconds

\* ---- JavaScript values -------------------------------------------------
\* A value is a record; a text (a string's content, a query, a serialisation, a
\* key) is a sequence of one-character strings. Arrays hold numbers in items;
\* objects hold one-character property names in s, in insertion order, and
\* their numeric values in items.
JV(kind, n, s, items) == [kind |-> kind, n |-> n, s |-> s, items |-> items]
JUndefined == JV("undefined", 0, <<>>, <<>>)
JNull == JV("null", 0, <<>>, <<>>)
JBool(b) == JV("boolean", IF b THEN 1 ELSE 0, <<>>, <<>>)
JNum(k) == JV("number", k, <<>>, <<>>)
JStr(chars) == JV("string", 0, chars, <<>>)
JArr(items) == JV("array", 0, <<>>, items)
JObj(names, items) == JV("object", 0, names, items)

\* ToBoolean: undefined, null, false, 0 and "" are falsy, all else is truthy
Truthy(v) ==
  CASE v.kind \in {"undefined", "null"} -> FALSE
    [] v.kind = "boolean" -> v.n = 1
    [] v.kind = "number" -> v.n # 0
    [] v.kind = "string" -> v.s # <<>>
    [] OTHER -> TRUE

DigitChars == <<"0", "1", "2", "3", "4", "5", "6", "7", "8", "9">>

RECURSIVE Digits(_)
Digits(n) == IF n < 10 THEN <<DigitChars[n + 1]>>
             ELSE Digits(n \div 10) \o <<DigitChars[(n % 10) + 1]>>

RECURSIVE JoinNums(_)
JoinNums(items) ==
  IF items = <<>> THEN <<>>
  ELSE IF Len(items) = 1 THEN Digits(items[1])
  ELSE Digits(items[1]) \o <<",">> \o JoinNums(Tail(items))

RECURSIVE JoinFields(_, _)
JoinFields(names, items) ==
  IF names = <<>> THEN <<>>
  ELSE LET field == <<"\"", names[1], "\"", ":">> \o Digits(items[1])
       IN  IF Len(names) = 1 THEN field
           ELSE field \o <<",">> \o JoinFields(Tail(names), Tail(items))

\* JSON.stringify of a value that is not undefined
JSONstringify(v) ==
  CASE v.kind = "null" -> <<"n", "u", "l", "l">>
    [] v.kind = "boolean" -> IF v.n = 1 THEN <<"t", "r", "u", "e">>
                             ELSE <<"f", "a", "l", "s", "e">>
    [] v.kind = "number" -> Digits(v.n)
    [] v.kind = "string" -> <<"\"">> \o v.s \o <<"\"">>
    [] v.kind = "array" -> <<"[">> \o JoinNums(v.items) \o <<"]">>
    [] v.kind = "object" -> <<"{">> \o JoinFields(v.s, v.items) \o <<"}">>

DigitValue(ch) == CHOOSE d \in 0..9 : DigitChars[d + 1] = ch

RECURSIVE ParseInt(_)
ParseInt(text) ==
  IF Len(text) = 1 THEN DigitValue(text[1])
  ELSE ParseInt(SubSeq(text, 1, Len(text) - 1)) * 10 + DigitValue(text[Len(text)])

\* the pieces of text between the commas
RECURSIVE SplitCommas(_)
SplitCommas(text) ==
  IF text = <<>> THEN <<>>
  ELSE LET commas == {i \in 1..Len(text) : text[i] = ","}
       IN  IF commas = {} THEN <<text>>
           ELSE LET i == CHOOSE c \in commas : \A d \in commas : c <= d
                IN  <<SubSeq(text, 1, i - 1)>> \o SplitCommas(SubSeq(text, i + 1, Len(text)))

\* JSON.parse of a text JSONstringify produced
JSONparse(text) ==
  LET body == SubSeq(text, 2, Len(text) - 1)
      parts == SplitCommas(body)
  IN  CASE text[1] = "n" -> JNull
        [] text[1] = "t" -> JBool(TRUE)
        [] text[1] = "f" -> JBool(FALSE)
        [] text[1] = "\"" -> JStr(body)
        [] text[1] = "[" -> JArr([i \in 1..Len(parts) |-> ParseInt(parts[i])])
        [] text[1] = "{" ->
             JObj([i \in 1..Len(parts) |-> parts[i][2]],
                  [i \in 1..Len(parts) |-> ParseInt(SubSeq(parts[i], 5, Len(parts[i])))])
        [] OTHER -> JNum(ParseInt(text))

\* ---- keys ----------------------------------------------------------------
\* createHash('sha256') ... digest('hex'): SHA-256 is taken to be free of
\* collisions, so the digest stands for exactly one input text
Sha256(text) == <<"sha256">> \o text

\* generateKey: the prefix, then the digest of the query text followed by the
\* serialised variables, with {} in place of every falsy variables value
generateKey(query, variables) ==
  <<"graphql", ":">> \o
    Sha256(query \o JSONstringify(IF Truthy(variables) THEN variables ELSE JObj(<<>>, <<>>)))

\* redis.keys(pattern): the patterns in use end in "*" and match by prefix
GlobMatch(pattern, key) ==
  /\ pattern[Len(pattern)] = "*"
  /\ Len(key) >= Len(pattern) - 1
  /\ SubSeq(key, 1, Len(pattern) - 1) = SubSeq(pattern, 1, Len(pattern) - 1)

ClearAllPattern == <<"graphql", ":", "*">>

\* ---- the store -----------------------------------------------------------
\* what a call throws instead of returning
Thrown == JV("thrown", 0, <<>>, <<>>)

\* redis.get(key): the text stored under key, <<>> (null) when there is none
RedisGet(store, key) ==
  IF \E e \in store : e.key = key
    THEN (CHOOSE e \in store : e.key = key).text
    ELSE <<>>

\* redis.setex(key, ttl, text) at time at
RedisSetEx(store, key, ttl, text, at) ==
  {e \in store : e.key # key} \union
    {[key |-> key, text |-> text, deadline |-> at + ttl * 1000]}

\* redis.keys(pattern)
RedisKeys(store, pattern) == {e.key : e \in {x \in store : GlobMatch(pattern, x.key)}}

\* set, line 115: options?.ttl || this.defaultTTL; options is <<>> when no ttl
\* is passed and <<t>> when ttl t is passed
EffectiveTtlDefaultOnly(options) == defaultTTL
EffectiveTtl(options) ==
  IF options # <<>> /\ options[1] # 0 THEN options[1] ELSE defaultTTL

\* get, lines 88-102; ok = the store command succeeded
getNoCatch(store, query, variables, ok) ==
  LET cached == RedisGet(store, generateKey(query, variables))
  IN  IF ~ok THEN Thrown ELSE IF cached # <<>> THEN JSONparse(cached) ELSE JNull
get(store, query, variables, ok) ==
  LET cached == RedisGet(store, generateKey(query, variables))
  IN  IF ok /\ cached # <<>> THEN JSONparse(cached) ELSE JNull

\* set, lines 107-121: SETEX rejects a ttl that is not positive, and the catch
\* swallows that like any other failure of the store
SetStores(options, ok) == ok /\ EffectiveTtl(options) > 0
set(store, query, data, variables, options, ok, at) ==
  IF SetStores(options, ok)
    THEN RedisSetEx(store, generateKey(query, variables), EffectiveTtl(options),
                    JSONstringify(data), at)
    ELSE store

\* two requests may be inside a resolver at once
Callers == {"r1", "r2"}
\* started = the calls that had returned when this one began; old = the
\* invalidations (caller, started) that began after this query read the database
IdleCall == [pc |-> "idle", op |-> "none", pattern |-> <<>>, atStart |-> {},
             keys |-> {}, rewritten |-> {}, failed |-> FALSE, result |-> JUndefined,
             started |-> 0, old |-> {}]

\* Query.validators line 34
cacheKey == <<"v", "a", "l", "i", "d", "a", "t", "o", "r", "s", ":", "a", "l", "l">>

\* the record logged when a call returns or throws; nw = the set calls made before
Returned(op, query, variables, data, res, failed, left) ==
  [op |-> op, q |-> query, v |-> variables, data |-> data, res |-> res,
   raised |-> res.kind = "thrown", failed |-> failed, left |-> left, t |-> gcNow,
   nw |-> Len(gcWrites), db |-> "none", by |-> "none", started |-> Len(gcHist)]

\* the same for Query.validators; db tells whether findMany ran and how it ended
QueryReturned(c, res, failed, db) ==
  [Returned("validators", cacheKey, JUndefined, JUndefined, res, failed, {})
     EXCEPT !.db = db, !.started = gcCall[c].started]

InFlight == {c \in Callers : gcCall[c].pc # "idle"}
MayStartCall == Len(gcHist) + Cardinality(InFlight) < MaxCacheCalls
MayStartOp == Len(gcHist) + Cardinality(InFlight) < MaxOpsCalls

GcInit ==
  /\ gcNow = 0
  /\ gcStore = {}
  /\ gcCall = [c \in Callers |-> IdleCall]
  /\ gcWrites = <<>>
  /\ gcHist = <<>>

\* the clock moves by one second or by one second less than the default TTL
CacheClockSteps == {1000, (defaultTTL - 1) * 1000}
TicksTaken(t) == (t \div ((defaultTTL - 1) * 1000)) + ((t % ((defaultTTL - 1) * 1000)) \div 1000)

\* time passes; the store drops the keys whose deadline has passed
GcAdvance ==
  /\ \E d \in CacheClockSteps :
       /\ TicksTaken(gcNow) < MaxCacheTicks
       /\ gcNow' = gcNow + d
       /\ gcStore' = {e \in gcStore : ~(gcNow + d > e.deadline)}
  /\ UNCHANGED <<gcCall, gcWrites, gcHist>>
  /\ UNCHANGED <<rlVars, schVars, tkVars, sjVars, svVars, fvVars>>

\* graphQLCache.get(query, variables)
CacheGet(query, variables, ok) ==
  /\ MayStartCall
  /\ gcHist' = Append(gcHist,
       Returned("get", query, variables, JUndefined,
                get(gcStore, query, variables, ok), ~ok, {}))
  /\ UNCHANGED <<gcNow, gcStore, gcCall, gcWrites>>
  /\ UNCHANGED <<rlVars, schVars, tkVars, sjVars, svVars, fvVars>>

\* graphQLCache.set(query, data, variables, options)
CacheSet(query, data, variables, options, ok) ==
  /\ MayStartCall
  /\ gcStore' = set(gcStore, query, data, variables, options, ok, gcNow)
  /\ gcWrites' = Append(gcWrites,
       [q |-> query, v |-> variables, data |-> data, options |-> options,
        t |-> gcNow, stored |-> SetStores(options, ok), old |-> {}])
  /\ gcCall' = [c \in Callers |->
       IF gcCall[c].pc # "idle" /\ SetStores(options, ok)
         THEN [gcCall[c] EXCEPT !.rewritten = @ \union {generateKey(query, variables)}]
         ELSE gcCall[c]]
  /\ gcHist' = Append(gcHist,
       Returned("set", query, variables, data, JUndefined, ~SetStores(options, ok), {}))
  /\ UNCHANGED gcNow
  /\ UNCHANGED <<rlVars, schVars, tkVars, sjVars, svVars, fvVars>>

\* getStats, lines 184-209: redis.keys and redis.info; totalKeys is returned
GetStats(okKeys, okInfo) ==
  /\ MayStartOp
  /\ gcHist' = Append(gcHist,
       Returned("getStats", <<>>, JUndefined, JUndefined,
                IF okKeys /\ okInfo
                  THEN JNum(Cardinality(RedisKeys(gcStore, ClearAllPattern)))
                  ELSE JNum(0),
                ~(okKeys /\ okInfo), {}))
  /\ UNCHANGED <<gcNow, gcStore, gcCall, gcWrites>>
  /\ UNCHANGED <<rlVars, schVars, tkVars, sjVars, svVars, fvVars>>

\* ---- invalidate, clearAll and the two mutations that call clearAll ------------
Mutations == {"clearCache", "invalidateValidatorCache"}
InvalidateOps == {"invalidate", "clearAll"} \union Mutations

\* the call begins; requirePermission throws before a mutation touches the cache
InvBegin(c, op, pattern, permitted) ==
  /\ gcCall[c].pc = "idle"
  /\ IF op \in Mutations /\ ~permitted
       THEN /\ gcHist' = Append(gcHist,
                 Returned(op, pattern, JUndefined, JUndefined, Thrown, FALSE, {}))
            /\ gcCall' = gcCall
       ELSE /\ gcCall' = [d \in Callers |->
                 IF d = c
                   THEN [IdleCall EXCEPT !.pc = "keys", !.op = op, !.pattern = pattern,
                                         !.atStart = RedisKeys(gcStore, pattern),
                                         !.started = Len(gcHist)]
                   ELSE IF gcCall[d].pc = "qSet"
                     THEN [gcCall[d] EXCEPT !.old = @ \union {<<c, Len(gcHist)>>}]
                     ELSE gcCall[d]]
            /\ gcHist' = gcHist
  /\ UNCHANGED <<gcNow, gcStore, gcWrites>>
  /\ UNCHANGED <<rlVars, schVars, tkVars, sjVars, svVars, fvVars>>

InvStart(c, op, pattern, permitted) == MayStartOp /\ InvBegin(c, op, pattern, permitted)

\* invalidate line 161: redis.keys(pattern); a failure goes to the catch of
\* line 165, which logs it and lets the call return
InvKeys(c, ok) ==
  /\ gcCall[c].pc = "keys"
  /\ LET keys == RedisKeys(gcStore, gcCall[c].pattern)
     IN  gcCall' = IF ok
           THEN [gcCall EXCEPT ![c].keys = keys,
                               ![c].pc = IF keys = {} THEN "ret" ELSE "del"]
           ELSE [gcCall EXCEPT ![c].failed = TRUE, ![c].pc = "ret"]
  /\ UNCHANGED <<gcNow, gcStore, gcWrites, gcHist>>
  /\ UNCHANGED <<rlVars, schVars, tkVars, sjVars, svVars, fvVars>>

\* invalidate lines 162-164: redis.del(...keys), one command for all the keys
InvDel(c, ok) ==
  /\ gcCall[c].pc = "del"
  /\ gcStore' = IF ok THEN {e \in gcStore : e.key \notin gcCall[c].keys} ELSE gcStore
  /\ gcCall' = [gcCall EXCEPT ![c].pc = "ret", ![c].failed = ~ok]
  /\ UNCHANGED <<gcNow, gcWrites, gcHist>>
  /\ UNCHANGED <<rlVars, schVars, tkVars, sjVars, svVars, fvVars>>

\* the call returns (a mutation answers success: true); left = the keys that
\* matched when the call began, were not written again since, and are still stored
InvReturn(c) ==
  /\ gcCall[c].pc = "ret"
  /\ gcHist' = Append(gcHist,
       [Returned(gcCall[c].op, gcCall[c].pattern, JUndefined, JUndefined,
                 IF gcCall[c].op \in Mutations THEN JBool(TRUE) ELSE JUndefined,
                 gcCall[c].failed,
                 {k \in gcCall[c].atStart :
                    k \notin gcCall[c].rewritten /\ RedisGet(gcStore, k) # <<>>})
          EXCEPT !.by = c, !.started = gcCall[c].started])
  /\ gcCall' = [gcCall EXCEPT ![c] = IdleCall]
  /\ UNCHANGED <<gcNow, gcStore, gcWrites>>
  /\ UNCHANGED <<rlVars, schVars, tkVars, sjVars, svVars, fvVars>>

\* ---- Query.validators ------------------------------------------------------

\* what the resolver builds from prisma.validator.findMany
DbResult == JArr(<<7>>)

QueryBegin(c) ==
  /\ gcCall[c].pc = "idle"
  /\ gcCall' = [gcCall EXCEPT ![c] = [IdleCall EXCEPT !.pc = "qGet", !.op = "validators",
                                                        !.started = Len(gcHist)]]
  /\ UNCHANGED <<gcNow, gcStore, gcWrites, gcHist>>
  /\ UNCHANGED <<rlVars, schVars, tkVars, sjVars, svVars, fvVars>>

QueryStart(c) == MayStartOp /\ QueryBegin(c)

\* resolver lines 35-40: a truthy cached value is returned as the answer
QueryGet(c, ok) ==
  /\ gcCall[c].pc = "qGet"
  /\ LET cached == get(gcStore, cacheKey, JUndefined, ok)
     IN  IF cached.kind = "thrown"
           THEN /\ gcHist' = Append(gcHist,
                     QueryReturned(c, Thrown, ~ok, "none"))
                /\ gcCall' = [gcCall EXCEPT ![c] = IdleCall]
           ELSE IF Truthy(cached)
             THEN /\ gcHist' = Append(gcHist,
                       QueryReturned(c, cached, ~ok, "none"))
                  /\ gcCall' = [gcCall EXCEPT ![c] = IdleCall]
             ELSE /\ gcHist' = gcHist
                  /\ gcCall' = [gcCall EXCEPT ![c].pc = "qFind", ![c].failed = ~ok]
  /\ UNCHANGED <<gcNow, gcStore, gcWrites>>
  /\ UNCHANGED <<rlVars, schVars, tkVars, sjVars, svVars, fvVars>>

\* resolver lines 43-89 and 96-99: the database read; its failure is rethrown as
\* 'Failed to fetch validators'
QueryFind(c, dbOk) ==
  /\ gcCall[c].pc = "qFind"
  /\ IF dbOk
       THEN /\ gcCall' = [gcCall EXCEPT ![c].pc = "qSet", ![c].result = DbResult]
            /\ gcHist' = gcHist
       ELSE /\ gcCall' = [gcCall EXCEPT ![c] = IdleCall]
            /\ gcHist' = Append(gcHist,
                 QueryReturned(c, Thrown, gcCall[c].failed, "failed"))
  /\ UNCHANGED <<gcNow, gcStore, gcWrites>>
  /\ UNCHANGED <<rlVars, schVars, tkVars, sjVars, svVars, fvVars>>

\* resolver lines 91-95: graphQLCache.set(cacheKey, result, undefined, {ttl: 300})
\* and the answer
QuerySet(c, ok) ==
  /\ gcCall[c].pc = "qSet"
  /\ gcStore' = set(gcStore, cacheKey, gcCall[c].result, JUndefined, <<300>>, ok, gcNow)
  /\ gcWrites' = Append(gcWrites,
       [q |-> cacheKey, v |-> JUndefined, data |-> gcCall[c].result, options |-> <<300>>,
        t |-> gcNow, stored |-> SetStores(<<300>>, ok), old |-> gcCall[c].old])
  /\ gcHist' = Append(gcHist,
       QueryReturned(c, gcCall[c].result, gcCall[c].failed \/ ~ok, "ok"))
  /\ gcCall' = [d \in Callers |->
       IF d = c THEN IdleCall
       ELSE IF gcCall[d].pc # "idle" /\ SetStores(<<300>>, ok)
         THEN [gcCall[d] EXCEPT !.rewritten = @ \union {generateKey(cacheKey, JUndefined)}]
         ELSE gcCall[d]]
  /\ UNCHANGED gcNow
  /\ UNCHANGED <<rlVars, schVars, tkVars, sjVars, svVars, fvVars>>

(***************************************************************************)
(*                                SCORING                                  *)
(***************************************************************************)

NumEntities == 3     \* validators the table can come to hold
batchSize == 2       \* batchSize of scoreAllValidatorsJob (50 in the source), scaled
                     \* to the table so that a job runs more than one batch
ScoreMargin == 12    \* how far stored values range below 0 and above 100
MaxLegacyJobs == 1   \* invocations of the legacy scoreValidatorsJob explored

baselinePenalty == 5 \* calculateTrustScore: penalty when commission is null

\* Numbers are held in thousandths: 93000 is 93.00. A nullable number is <<>> for
\* null and <<x>> for x.
Unit == 1000

Max(a, b) == IF a >= b THEN a ELSE b
Min(a, b) == IF a <= b THEN a ELSE b

\* Math.round(score * 100) / 100
Round2(x) == ((x + 5) \div 10) * 10

\* calculateTrustScore, scoringAllValidators.ts lines 15-23
calculateTrustScoreOr(uptime, commission) ==
  LET score == uptime - (IF commission # <<>> /\ commission # <<0>> THEN commission[1]
                         ELSE baselinePenalty * Unit)
  IN  Round2(Max(0, Min(100 * Unit, score)))
calculateTrustScore(uptime, commission) ==
  LET score == uptime - (IF commission # <<>> THEN commission[1]
                         ELSE baselinePenalty * Unit)
  IN  Round2(Max(0, Min(100 * Unit, score)))

\* scoreValidatorsJob, scoreValidators.ts line 19
legacyScore(uptime, commission) ==
  uptime - (IF commission # <<>> THEN commission[1] ELSE 0)

\* runScoringForValidator with calculateScore, part_004 lines 13-18 and 39-42
calculateScore(uptime, commission) ==
  LET score == uptime - (IF commission # <<>> THEN commission[1]
                         ELSE baselinePenalty * Unit)
  IN  Max(0, Min(100 * Unit, score))
runScoringScore(uptime, commission) ==
  calculateScore(uptime, IF commission # <<>> THEN commission ELSE <<10 * Unit>>)

\* ---- the three code paths on one stored validator --------------------------
StoredNumbers ==
  {k * Unit : k \in (0 - ScoreMargin)..(100 + ScoreMargin)} \union {98375, 99996}
StoredValidators ==
  [uptime : StoredNumbers, commission : {<<>>} \union {<<c>> : c \in StoredNumbers}]

FnIdle == fnIn = [uptime |-> 0, commission |-> <<>>] /\ fnScores = {}
FnInit == fnIn \in StoredValidators /\ fnScores = {}

\* prisma.trustScore.create by the code path named
FnPersist(path, score) ==
  /\ \A row \in fnScores : row.path # path
  /\ fnScores' = fnScores \union {[path |-> path, score |-> score]}
  /\ UNCHANGED <<fnIn, sjTable, sjRuns, sjScores, sjJob>>
  /\ UNCHANGED <<rlVars, schVars, tkVars, gcVars, svVars, fvVars>>

FnScoreAll ==
  FnPersist("scoreAllValidatorsJob", calculateTrustScore(fnIn.uptime, fnIn.commission))
FnLegacy ==
  FnPersist("scoreValidatorsJob", legacyScore(fnIn.uptime, fnIn.commission))
FnRunScoring ==
  FnPersist("runScoringForValidator", runScoringScore(fnIn.uptime, fnIn.commission))

\* ---- scoreAllValidatorsJob ---------------------------------------------------
Entities == 1..NumEntities
ScoreJobs == {"s1", "s2"}

\* the row the fetch job stores for validator k
EntityRow(k) ==
  [id |-> k, uptime |-> ((k * 37) % 101) * Unit,
   commission |-> IF k % 3 = 1 THEN <<>> ELSE <<((k * 53) % 101) * Unit>>]

IdleJob == [pc |-> "idle", read |-> <<>>, run |-> 0, i |-> 0, pending |-> {},
            successCount |-> 0, failCount |-> 0, bad |-> {}, outcome |-> "none"]

SjInit ==
  /\ sjTable = <<>>
  /\ sjRuns = {}
  /\ sjScores = <<>>
  /\ sjJob = [j \in ScoreJobs |-> IdleJob]

\* fetchValidators lines 79-83: a validator not yet stored is created
SjUpsert ==
  /\ Len(sjTable) < NumEntities
  /\ sjTable' = Append(sjTable, EntityRow(Len(sjTable) + 1))
  /\ UNCHANGED <<sjRuns, sjScores, sjJob, fnIn, fnScores>>
  /\ UNCHANGED <<rlVars, schVars, tkVars, gcVars, svVars, fvVars>>

\* the worker invokes scoreAllValidatorsJob
SjStart(j) ==
  /\ sjJob[j].pc = "idle" /\ sjJob[j].outcome = "none"
  /\ sjJob' = [sjJob EXCEPT ![j].pc = "find"]
  /\ UNCHANGED <<sjTable, sjRuns, sjScores, fnIn, fnScores>>
  /\ UNCHANGED <<rlVars, schVars, tkVars, gcVars, svVars, fvVars>>

\* lines 40-53: findMany; no validators -> return
SjFind(j, ok) ==
  /\ sjJob[j].pc = "find"
  /\ sjJob' = IF ~ok THEN [sjJob EXCEPT ![j].pc = "catch"]
              ELSE IF sjTable = <<>>
                THEN [sjJob EXCEPT ![j].pc = "done", ![j].outcome = "returned"]
                ELSE [sjJob EXCEPT ![j].pc = "createRun", ![j].read = sjTable]
  /\ UNCHANGED <<sjTable, sjRuns, sjScores, fnIn, fnScores>>
  /\ UNCHANGED <<rlVars, schVars, tkVars, gcVars, svVars, fvVars>>

\* lines 58-67: scoringRun.create({data: {runDate}}); the row gets a fresh id and
\* holds nothing else but its date, for which the creating invocation stands
scoringRunIdConstant(runs) == 1
scoringRunIdFresh(runs) == Cardinality(runs) + 1

scoringRunCreateReplacing(runs, j) == {[id |-> scoringRunIdFresh(runs), runDate |-> j]}
scoringRunCreate(runs, j) == runs \union {[id |-> scoringRunIdFresh(runs), runDate |-> j]}

SjCreateRun(j, ok) ==
  /\ sjJob[j].pc = "createRun"
  /\ IF ok
       THEN /\ sjRuns' = scoringRunCreate(sjRuns, j)
            /\ sjJob' = [sjJob EXCEPT ![j].pc = "batch", ![j].run = scoringRunIdFresh(sjRuns)]
       ELSE /\ sjRuns' = sjRuns
            /\ sjJob' = [sjJob EXCEPT ![j].pc = "catch"]
  /\ UNCHANGED <<sjTable, sjScores, fnIn, fnScores>>
  /\ UNCHANGED <<rlVars, schVars, tkVars, gcVars, svVars, fvVars>>

\* line 77: validators.slice(i, i + batchSize), as positions of the list read
sliceToEnd(read, i) == {k \in 1..Len(read) : i < k}
slice(read, i) == {k \in 1..Len(read) : i < k /\ k <= i + batchSize}

\* lines 76-136: the loop takes the next batch and starts one callback per
\* validator; each computes its score and issues trustScore.create
SjBatchStart(j) ==
  /\ sjJob[j].pc = "batch"
  /\ sjJob' = IF sjJob[j].i < Len(sjJob[j].read)
       THEN [sjJob EXCEPT ![j].pc = "await",
               ![j].pending = slice(sjJob[j].read, sjJob[j].i)]
       ELSE [sjJob EXCEPT ![j].pc = "finish"]
  /\ UNCHANGED <<sjTable, sjRuns, sjScores, fnIn, fnScores>>
  /\ UNCHANGED <<rlVars, schVars, tkVars, gcVars, svVars, fvVars>>

\* line 110: the run a TrustScore is given
scoringRunIdLatest(job) == Cardinality(sjRuns)
scoringRunId(job) == job.run

\* lines 98-135: one callback settles; the try/catch of the callback counts a
\* failed create in failCount and lets the batch go on
SettledAborting(job, k, ok) ==
  IF ok THEN [job EXCEPT !.pending = @ \ {k}, !.successCount = @ + 1]
  ELSE [job EXCEPT !.pending = {}, !.bad = @ \union {k}, !.pc = "catch"]
Settled(job, k, ok) ==
  IF ok THEN [job EXCEPT !.pending = @ \ {k}, !.successCount = @ + 1]
  ELSE [job EXCEPT !.pending = @ \ {k}, !.failCount = @ + 1, !.bad = @ \union {k}]

SjSettle(j, k, ok) ==
  /\ sjJob[j].pc = "await"
  /\ k \in sjJob[j].pending
  /\ sjScores' = IF ok
       THEN Append(sjScores,
              [validatorId |-> sjJob[j].read[k].id,
               score |-> calculateTrustScore(sjJob[j].read[k].uptime,
                                             sjJob[j].read[k].commission),
               scoringRunId |-> scoringRunId(sjJob[j]), by |-> j])
       ELSE sjScores
  /\ sjJob' = [sjJob EXCEPT ![j] = Settled(sjJob[j], k, ok)]
  /\ UNCHANGED <<sjTable, sjRuns, fnIn, fnScores>>
  /\ UNCHANGED <<rlVars, schVars, tkVars, gcVars, svVars, fvVars>>

\* lines 139-144: Promise.all has resolved; pause, then the next batch
SjBatchEnd(j) ==
  /\ sjJob[j].pc = "await"
  /\ sjJob[j].pending = {}
  /\ sjJob' = [sjJob EXCEPT ![j].pc = "batch", ![j].i = @ + batchSize]
  /\ UNCHANGED <<sjTable, sjRuns, sjScores, fnIn, fnScores>>
  /\ UNCHANGED <<rlVars, schVars, tkVars, gcVars, svVars, fvVars>>

\* lines 147-180: the counts are logged and the job returns; the update of the
\* ScoringRun is commented out
SjFinish(j) ==
  /\ sjJob[j].pc = "finish"
  /\ sjJob' = [sjJob EXCEPT ![j].pc = "done", ![j].outcome = "returned"]
  /\ UNCHANGED <<sjTable, sjRuns, sjScores, fnIn, fnScores>>
  /\ UNCHANGED <<rlVars, schVars, tkVars, gcVars, svVars, fvVars>>

\* lines 182-206: the error is logged and audited, then thrown again
SjCatch(j) ==
  /\ sjJob[j].pc = "catch"
  /\ sjJob' = [sjJob EXCEPT ![j].pc = "done", ![j].outcome = "threw"]
  /\ UNCHANGED <<sjTable, sjRuns, sjScores, fnIn, fnScores>>
  /\ UNCHANGED <<rlVars, schVars, tkVars, gcVars, svVars, fvVars>>

\* ---- scoreValidatorsJob (src/workers/scoreValidators.ts) ----------------------
\* the legacy job as one step: findMany, return if empty (lines 10-14); create a
\* ScoringRun (line 16); one trustScore.create per validator in order (lines
\* 18-29)
LegacyRuns == {r \in sjRuns : r.runDate = "legacy"}

LegacyScoreJob(okRun) ==
  /\ Cardinality(LegacyRuns) < MaxLegacyJobs
  /\ IF sjTable = <<>> \/ ~okRun
       THEN UNCHANGED <<sjRuns, sjScores>>
       ELSE /\ sjRuns' = scoringRunCreate(sjRuns, "legacy")
            /\ sjScores' = sjScores \o
                 [k \in 1..Len(sjTable) |->
                    [validatorId |-> sjTable[k].id,
                     score |-> legacyScore(sjTable[k].uptime, sjTable[k].commission),
                     scoringRunId |-> scoringRunIdFresh(sjRuns), by |-> "legacy"]]
  /\ UNCHANGED <<sjTable, sjJob, fnIn, fnScores>>
  /\ UNCHANGED <<rlVars, schVars, tkVars, gcVars, svVars, fvVars>>

(***************************************************************************)
(*                              HTTP SERVER                                *)
(***************************************************************************)

MaxServerRequests == 2  \* requests answered per behaviour
MaxServerTicks == 2     \* clock steps explored
ServerMaxRequests == 1  \* maxRequests of the server's limiter (100 in the source), scaled

ServerWindowMs == 900000  \* windowMs of the server's limiter, 15 * 60 * 1000

ServerIps == {"ip1", "ip2"}

\* ---- credentials (src/lib/auth.ts) ------------------------------------------
\* createMockUser, lines 142-157
basePermissions == {"read:validators", "read:scores"}
adminPermissions == basePermissions \union {"write:stakes", "write:validators", "admin:system"}

JWTPayload(userId, role, permissions) ==
  [userId |-> userId, role |-> role, permissions |-> permissions]

\* a token: whether jwt.verify accepts its signature, issuer and audience, whether
\* it has expired, and the payload it carries
Token(signed, expired, payload) ==
  [signed |-> signed, expired |-> expired, payload |-> payload]

ViewerToken == Token(TRUE, FALSE, JWTPayload("u1", "viewer", basePermissions))
AdminToken == Token(TRUE, FALSE, JWTPayload("u2", "admin", adminPermissions))
OperatorToken == Token(TRUE, FALSE, JWTPayload("u3", "admin", {"read:users"}))
ForgedToken == Token(FALSE, FALSE, JWTPayload("u2", "admin", adminPermissions))
ExpiredToken == Token(TRUE, TRUE, JWTPayload("u2", "admin", adminPermissions))

UserIds == {"u1", "u2", "u3"}

\* the Authorization header of a request
Header(scheme, token) == [scheme |-> scheme, token |-> token]
Authorizations ==
  {Header("none", ForgedToken), Header("Basic", AdminToken)} \union
  {Header("Bearer", t) :
     t \in {ViewerToken, AdminToken, OperatorToken, ForgedToken, ExpiredToken}}

\* extractTokenFromRequest, lines 74-82: <<>> is null
extractTokenFromRequest(req) ==
  IF req.authorization.scheme = "Bearer" THEN <<req.authorization.token>> ELSE <<>>

\* verifyToken, lines 57-69: the payload, or null when jwt.verify throws
verifyToken(token) ==
  IF token.signed /\ ~token.expired THEN <<token.payload>> ELSE <<>>

\* createAuthContext, lines 87-123
Unauthenticated == [user |-> <<>>, isAuthenticated |-> FALSE]
createAuthContext(req) ==
  LET token == extractTokenFromRequest(req)
  IN  IF token = <<>> THEN Unauthenticated
      ELSE LET payload == verifyToken(token[1])
           IN  IF payload = <<>> THEN Unauthenticated
               ELSE [user |-> <<[id |-> payload[1].userId, role |-> payload[1].role,
                                 permissions |-> payload[1].permissions]>>,
                     isAuthenticated |-> TRUE]

\* AuthContext.hasPermission and hasRole, lines 94-95, 105-106 and 120-121
hasPermission(auth, permission) ==
  auth.user # <<>> /\ permission \in auth.user[1].permissions
hasRole(auth, role) == auth.user # <<>> /\ auth.user[1].role = role

\* resolvers/index.ts lines 6-27: TRUE when the helper returns, FALSE when it throws
requireAuth(auth) == auth.isAuthenticated
requirePermissionAuthOnly(auth, permission) == requireAuth(auth)
requirePermission(auth, permission) == requireAuth(auth) /\ hasPermission(auth, permission)
requireRole(auth, role) == requireAuth(auth) /\ hasRole(auth, role)

\* ---- the rate limiter in front ------------------------------------------------
\* RateLimiter.generateKey, rateLimit.ts lines 31-37: req.auth is what
\* authMiddleware has attached to the request so far, <<>> when it has not run
RateLimitKey(req) ==
  <<req.ip, IF req.auth # <<>> /\ req.auth[1].user # <<>>
              THEN req.auth[1].user[1].id ELSE "anonymous">>

RateLimitKeys == ServerIps \X (UserIds \union {"anonymous"})

\* checkRateLimit, lines 42-93, against the key's sorted set; ok = the store works
checkRateLimit(zset, at, ok) ==
  LET cnt == Len(ZRangeByScore(zset, at - ServerWindowMs))
  IN  IF ~ok THEN CatchResult(at, ServerMaxRequests, ServerWindowMs)
      ELSE IF cnt >= ServerMaxRequests THEN RejectResult(zset, at, ServerWindowMs)
      ELSE AdmitResult(at, cnt, ServerMaxRequests, ServerWindowMs)

\* whether checkRateLimit recorded the request (lines 74-77)
Recorded(zset, at, ok) ==
  ok /\ Len(ZRangeByScore(zset, at - ServerWindowMs)) < ServerMaxRequests

\* rateLimitMiddleware, lines 211-227: the headers set on the response
RateLimitHeaders(result) ==
  {"X-RateLimit-Limit", "X-RateLimit-Remaining", "X-RateLimit-Reset"} \union
    (IF result.allowed THEN {} ELSE {"Retry-After"})

\* ---- routes and resolvers ----------------------------------------------------
RestRoutes == {"GET /health", "GET /cache/status", "POST /cache/clear"}
GraphQLOps == {"validators", "users", "scoringRuns", "systemStats", "cacheStatus",
               "clearCache", "invalidateValidatorCache"}
Routes == RestRoutes \union GraphQLOps

\* clearAll with a working store: every key matching graphql:* is deleted
clearAll(store) == {e \in store : ~GlobMatch(ClearAllPattern, e.key)}

\* what a handler did: how it answered, the Persistence Gateway calls it made,
\* the cache methods it called and the cache it left
Effect(outcome, status, db, cache, store) ==
  [outcome |-> outcome, status |-> status, db |-> db, cache |-> cache, store |-> store]

\* a resolver whose guard threw: the GraphQL answer carries the error
Denied(store) == Effect("denied", 200, {}, {}, store)

\* the handler of each route, given the AuthContext of the request
Handle(route, auth, store, at) ==
  CASE route = "GET /health" -> Effect("ok", 200, {}, {}, store)
    [] route = "GET /cache/status" -> Effect("ok", 200, {}, {"getStats"}, store)
    [] route = "POST /cache/clear" ->
         IF ~hasPermission(auth, "admin:system")
           THEN Effect("denied", 403, {}, {}, store)
           ELSE Effect("ok", 200, {}, {"clearAll"}, clearAll(store))
    [] route = "validators" ->
         IF Truthy(get(store, cacheKey, JUndefined, TRUE))
           THEN Effect("ok", 200, {}, {"get"}, store)
           ELSE Effect("ok", 200, {"validator.findMany"}, {"get", "set"},
                       set(store, cacheKey, DbResult, JUndefined, <<300>>, TRUE, at))
    [] route = "users" ->
         IF requirePermission(auth, "read:users")
           THEN Effect("ok", 200, {"user.findMany"}, {}, store)
           ELSE Denied(store)
    [] route = "scoringRuns" ->
         IF requirePermission(auth, "read:scores")
           THEN Effect("ok", 200, {"scoringRun.findMany"}, {}, store)
           ELSE Denied(store)
    [] route = "systemStats" ->
         IF requireRole(auth, "admin")
           THEN Effect("ok", 200,
                       {"validator.count", "user.count", "scoringRun.count"}, {}, store)
           ELSE Denied(store)
    [] route = "cacheStatus" ->
         IF requirePermission(auth, "admin:system")
           THEN Effect("ok", 200, {}, {"getStats"}, store)
           ELSE Denied(store)
    [] route \in {"clearCache", "invalidateValidatorCache"} ->
         IF requirePermission(auth, "admin:system")
           THEN Effect("ok", 200, {}, {"clearAll"}, clearAll(store))
           ELSE Denied(store)

\* ---- the middleware chain, server lines 16-28 --------------------------------
NoWindow == [set |-> <<>>, ttl |-> -1]

NoRequest ==
  [ip |-> "none", authorization |-> Header("none", ForgedToken), route |-> "none",
   t |-> 0, key |-> <<"none", "anonymous">>, identity |-> "anonymous",
   credential |-> FALSE, allowed |-> TRUE, headers |-> {}, status |-> 0,
   outcome |-> "none", limit |-> 0,
   remaining |-> 0, reset |-> 0, retryAfter |-> <<>>, recorded |-> FALSE,
   authRan |-> FALSE, handlerRan |-> FALSE, db |-> {}, cache |-> {},
   cacheBefore |-> {}, cacheAfter |-> {}]

SvInit ==
  /\ svWindows = [k \in RateLimitKeys |-> NoWindow]
  /\ svSent = [k \in RateLimitKeys |-> <<>>]
  /\ svLast = NoRequest
  /\ svCount = 0

\* time passes; the store drops the keys whose deadline has passed
SvAdvance ==
  /\ gcNow < MaxServerTicks * (ServerWindowMs \div 2)
  /\ LET t == gcNow + (ServerWindowMs \div 2)
     IN  /\ gcNow' = t
         /\ gcStore' = {e \in gcStore : ~(t > e.deadline)}
         /\ svWindows' = [k \in RateLimitKeys |->
              IF svWindows[k].ttl # -1 /\ t > svWindows[k].ttl
                THEN NoWindow ELSE svWindows[k]]
  /\ UNCHANGED <<gcCall, gcWrites, gcHist, svSent, svLast, svCount>>
  /\ UNCHANGED <<rlVars, schVars, tkVars, sjVars, fvVars>>

\* one request through the chain: rateLimitMiddleware (rateLimit.ts lines
\* 208-230), which answers 429 or calls next(); authMiddleware (auth.ts lines
\* 172-179); the route's handler. GraphQL resolvers take their AuthContext from
\* createGraphQLContext (auth.ts lines 182-187), built from the same request
Serve(ip, authorization, route, ok) ==
  /\ svCount < MaxServerRequests
  /\ LET req == [ip |-> ip, authorization |-> authorization, auth |-> <<>>]
         key == RateLimitKey(req)
         result == checkRateLimit(svWindows[key].set, gcNow, ok)
         passed == MiddlewareOutcome(result) = "next"
         auth == createAuthContext(req)
         identity == RateLimitKey([req EXCEPT !.auth = <<auth>>])
         effect == IF passed THEN Handle(route, auth, gcStore, gcNow)
                   ELSE Effect("429", 429, {}, {}, gcStore)
     IN  /\ svWindows' = IF Recorded(svWindows[key].set, gcNow, ok)
              THEN [svWindows EXCEPT ![key] =
                      [set |-> ZAdd(svWindows[key].set, gcNow),
                       ttl |-> ExpireDeadline(gcNow, ServerWindowMs)]]
              ELSE svWindows
         /\ svSent' = IF passed
              THEN [svSent EXCEPT ![identity] = Append(@, gcNow)]
              ELSE svSent
         /\ gcStore' = effect.store
         /\ svLast' =
              [ip |-> ip, authorization |-> authorization, route |-> route,
               t |-> gcNow, key |-> key, identity |-> identity[2],
               credential |-> auth.isAuthenticated,
               allowed |-> result.allowed, headers |-> RateLimitHeaders(result),
               status |-> effect.status, outcome |-> effect.outcome,
               limit |-> ServerMaxRequests, remaining |-> result.remaining,
               reset |-> result.resetTime,
               retryAfter |-> IF passed THEN <<>> ELSE <<result.retryAfter>>,
               recorded |-> Recorded(svWindows[key].set, gcNow, ok),
               authRan |-> passed, handlerRan |-> passed,
               db |-> effect.db, cache |-> effect.cache,
               cacheBefore |-> gcStore, cacheAfter |-> effect.store]
  /\ svCount' = svCount + 1
  /\ UNCHANGED <<gcNow, gcCall, gcWrites, gcHist>>
  /\ UNCHANGED <<rlVars, schVars, tkVars, sjVars, fvVars>>

(***************************************************************************)
(*                      FETCH JOB: THE UPSERT LOOP                         *)
(***************************************************************************)

MaxFetched == 2      \* vote accounts the endpoint returns
MaxFetchRuns == 2    \* runs of the fetch job over the same list

\* a vote account of getVoteAccounts: votePubkey, nodePubkey ("" when missing),
\* commission (<<>> when it is not a number), the credits of the last
\* epochCredits entry (<<>> when epochCredits is empty) and activatedStake
VoteAccount(votePubkey, nodePubkey, commission, credits, activatedStake) ==
  [votePubkey |-> votePubkey, nodePubkey |-> nodePubkey, commission |-> commission,
   credits |-> credits, activatedStake |-> activatedStake]

RemoteRecords ==
  {VoteAccount("A", "X", <<10 * Unit>>, <<5000>>, 1),
   VoteAccount("C", "Z", <<>>, <<>>, 1),
   VoteAccount("B", "", <<150 * Unit>>, <<40000>>, 0),
   VoteAccount("", "X", <<0>>, <<>>, 0)}

\* fetchValidators lines 64-69: credits / 100, else 1 when staked, else 0
DerivedUptime(v) ==
  IF v.credits # <<>> THEN (v.credits[1] * Unit) \div 100
  ELSE IF v.activatedStake > 0 THEN 1 * Unit ELSE 0

\* lines 71-77: the object handed to validatorSchema.parse
SchemaInput(v) ==
  [voteAccount |-> v.votePubkey,
   validatorPubkey |-> IF v.nodePubkey # "" THEN v.nodePubkey ELSE v.votePubkey,
   commission |-> v.commission, uptime |-> DerivedUptime(v)]

\* validatorSchema (schemas/validatorSchema.ts): both keys non-empty strings,
\* commission a number or null, uptime a number
validatorSchemaAccepts(input) ==
  input.voteAccount # "" /\ input.validatorPubkey # ""

\* Validator model: voteAccount @unique, validatorPubkey @unique
UniqueKeys(table) ==
  \A r1 \in table, r2 \in table :
    (r1.voteAccount = r2.voteAccount \/ r1.validatorPubkey = r2.validatorPubkey)
      => r1 = r2

\* prisma.validator.upsert({where: {voteAccount}, update: parsed, create: parsed}):
\* the table it leaves; the statement fails, and leaves the table as it was, when
\* the row it writes would break a unique constraint
upsert(table, parsed) ==
  LET written == {r \in table : r.voteAccount # parsed.voteAccount} \union {parsed}
  IN  IF UniqueKeys(written) THEN written ELSE table

upsertFails(table, parsed) == parsed \notin upsert(table, parsed)

IdleFetch == [pc |-> "idle", i |-> 0, successCount |-> 0, failCount |-> 0,
              stored |-> {}, invalid |-> {}, refused |-> {}]

\* the table is empty, or holds vote account C under the identity X from an
\* earlier fetch
StoredBefore ==
  {{}, {SchemaInput(VoteAccount("C", "X", <<10 * Unit>>, <<10000>>, 1))}}

FetchedLists ==
  UNION {[1..n -> RemoteRecords] : n \in 0..MaxFetched}

FvIdle ==
  /\ fvList = <<>> /\ fvTable = {} /\ fvJob = IdleFetch /\ fvAfter = <<>>

FvInit == FvIdle

FvInitLists ==
  /\ fvList \in FetchedLists
  /\ fvTable \in StoredBefore
  /\ fvJob = IdleFetch
  /\ fvAfter = <<>>

\* fetchValidators is invoked and the endpoint returns the list (lines 44-60)
FvStart ==
  /\ fvJob.pc = "idle"
  /\ Len(fvAfter) < MaxFetchRuns
  /\ fvJob' = [IdleFetch EXCEPT !.pc = "loop", !.i = 1]
  /\ UNCHANGED <<fvList, fvTable, fvAfter>>
  /\ UNCHANGED <<rlVars, schVars, tkVars, gcVars, sjVars, svVars>>

\* lines 86-89: the catch inside the loop counts the record and lets the loop
\* go on to the next one
RecordFailedAborting(job) == [job EXCEPT !.i = Len(fvList) + 1, !.failCount = @ + 1]
RecordFailed(job) == [job EXCEPT !.i = @ + 1, !.failCount = @ + 1]

\* lines 62-90: one pass of the loop; a record that fails to parse or to upsert
\* is counted in failCount and the loop goes on. ok: the store executes the
\* upsert statement
FvRecord(ok) ==
  /\ fvJob.pc = "loop"
  /\ fvJob.i <= Len(fvList)
  /\ LET input == SchemaInput(fvList[fvJob.i])
     IN  IF ~validatorSchemaAccepts(input)
           THEN /\ fvTable' = fvTable
                /\ fvJob' = [RecordFailed(fvJob) EXCEPT !.invalid = @ \union {fvJob.i}]
           ELSE IF ~ok \/ upsertFails(fvTable, input)
             THEN /\ fvTable' = fvTable
                  /\ fvJob' = [RecordFailed(fvJob) EXCEPT !.refused = @ \union {fvJob.i}]
             ELSE /\ fvTable' = upsert(fvTable, input)
                  /\ fvJob' = [fvJob EXCEPT !.i = @ + 1, !.successCount = @ + 1,
                                            !.stored = @ \union {fvJob.i}]
  /\ UNCHANGED <<fvList, fvAfter>>
  /\ UNCHANGED <<rlVars, schVars, tkVars, gcVars, sjVars, svVars>>

\* lines 92-105: the tally is logged and the job returns
FvFinish ==
  /\ fvJob.pc = "loop"
  /\ fvJob.i > Len(fvList)
  /\ fvJob' = [fvJob EXCEPT !.pc = "idle"]
  /\ fvAfter' = Append(fvAfter, fvTable)
  /\ UNCHANGED <<fvList, fvTable>>
  /\ UNCHANGED <<rlVars, schVars, tkVars, gcVars, sjVars, svVars>>

(***************************************************************************)
(*                            SPECIFICATIONS                               *)
(***************************************************************************)

\* every subsystem in its state after construction
InitAll ==
  /\ RLInit /\ rlMax = 1 /\ rlWindow = 1000
  /\ SchInit
  /\ TkInit /\ secondaryUp = TRUE
  /\ GcInit
  /\ SjInit /\ SvInit /\ FvInit /\ FnIdle

NextRL == RLSeqAdvance \/ \E p \in SeqReqs : RLSeqStart(p) \/ RLSteps(p)
NextRLConc == RLAdvance \/ \E p \in Reqs : RLStart(p) \/ RLSteps(p)
NextRLFail ==
  RLSeqAdvance \/ \E p \in SeqReqs : RLSeqStart(p) \/ RLSteps(p) \/ RLStoreError(p)

InitRL == RLInit /\ SchInit /\ TkInit /\ secondaryUp = TRUE /\ GcInit /\ SjInit /\ SvInit /\ FvInit /\ FnIdle
SpecRL == InitRL /\ [][NextRL]_vars
SpecRLConc == InitRL /\ [][NextRLConc]_vars
SpecRLFail == InitRL /\ [][NextRLFail]_vars

NextSched == \E s \in SeqScheds : SchSeqStart(s) \/ SchSteps(s)

InitSched == InitAll
SpecSched == InitSched /\ [][NextSched]_vars

\* scheduler commands run one after another over a queue whose operations may throw
NextSchedFail == \E s \in SeqScheds : SchSeqStart(s) \/ SchSteps(s) \/ SchThrow(s)
SpecSchedFail == InitSched /\ [][NextSchedFail]_vars

\* scheduler processes started together: their queue operations interleave
ConcScheds == {1, 2}
NextSchedConc == \E s \in ConcScheds : SchStart(s) \/ SchSteps(s)
SpecSchedConc == InitSched /\ [][NextSchedConc]_vars

NextTask == \E j \in Tasks : TaskStep(j)

InitTask ==
  /\ RLInit /\ rlMax = 1 /\ rlWindow = 1000
  /\ SchInit
  /\ TkInit /\ secondaryUp \in BOOLEAN
  /\ GcInit
  /\ SjInit /\ SvInit /\ FvInit /\ FnIdle
SpecTask == InitTask /\ [][NextTask]_vars

\* one worker process and a backlog of tasks
InitPool ==
  /\ RLInit /\ rlMax = 1 /\ rlWindow = 1000
  /\ SchInit
  /\ PoolInit /\ secondaryUp = TRUE
  /\ GcInit
  /\ SjInit /\ SvInit /\ FvInit /\ FnIdle
NextPool ==
  \E j \in PoolTasks :
    \/ WActivate(j)
    \/ \E ok \in BOOLEAN : PoolSettle(j, ok)
    \/ Promote(j)
SpecPool == InitPool /\ [][NextPool]_vars

\* ---- cache ---------------------------------------------------------------
InitCache == RLInit /\ rlMax = 1 /\ rlWindow = 1000 /\ SchInit /\ TkInit
             /\ secondaryUp = TRUE /\ GcInit /\ SjInit /\ SvInit /\ FvInit /\ FnIdle

\* key derivation: many (query, variables) pairs, one data value
KeyQueries == {<<"a">>, <<"a", "1">>}
KeyVariables == {JUndefined, JNull, JNum(2), JNum(12), JObj(<<>>, <<>>), JObj(<<"a">>, <<2>>)}
NextCacheKey ==
  \E q \in KeyQueries, v \in KeyVariables :
    \/ CacheSet(q, DbResult, v, <<>>, TRUE)
    \/ CacheGet(q, v, TRUE)
SpecCacheKey == InitCache /\ [][NextCacheKey]_vars

\* property order: variables objects with the same fields written in either order
OrderVariables ==
  {JObj(<<"a", "b">>, <<2, 13>>), JObj(<<"b", "a">>, <<13, 2>>),
   JObj(<<"a", "b">>, <<13, 2>>), JObj(<<"a">>, <<2>>)}
NextCacheOrder ==
  \E v \in OrderVariables :
    \/ CacheSet(<<"a">>, DbResult, v, <<>>, TRUE)
    \/ CacheGet(<<"a">>, v, TRUE)
SpecCacheOrder == InitCache /\ [][NextCacheOrder]_vars

\* round trip: many data values, few keys
JsonData == {JNull, JBool(FALSE), JBool(TRUE), JNum(0), JNum(12), JStr(<<>>),
             JStr(<<"a", ",">>), JArr(<<>>), JArr(<<1, 20>>), JObj(<<>>, <<>>),
             JObj(<<"a", "b">>, <<2, 13>>)}
DataVariables == {JUndefined, JObj(<<"a">>, <<2>>)}
NextCacheData ==
  \E v \in DataVariables :
    \/ \E data \in JsonData : CacheSet(<<"a">>, data, v, <<>>, TRUE)
    \/ CacheGet(<<"a">>, v, TRUE)
SpecCacheData == InitCache /\ [][NextCacheData]_vars

\* expiry: many ttl options, one key
TtlOptions == {<<>>, <<0>>, <<1>>, <<2>>}
NextCacheTtl ==
  \/ GcAdvance
  \/ \E options \in TtlOptions : CacheSet(<<"a">>, DbResult, JUndefined, options, TRUE)
  \/ CacheGet(<<"a">>, JUndefined, TRUE)
SpecCacheTtl == InitCache /\ [][NextCacheTtl]_vars

\* every operation, callers interleaved, each store command free to fail
OpsVariables == {JUndefined, JNum(2)}
NextCacheOps ==
  \/ \E ok \in BOOLEAN, v \in OpsVariables :
       \/ MayStartOp /\ CacheSet(cacheKey, JArr(<<1>>), v, <<>>, ok)
       \/ MayStartOp /\ CacheGet(cacheKey, v, ok)
  \/ \E okKeys \in BOOLEAN, okInfo \in BOOLEAN : GetStats(okKeys, okInfo)
  \/ \E c \in Callers, ok \in BOOLEAN :
       \/ \E op \in InvalidateOps : InvStart(c, op, ClearAllPattern, ok)
       \/ InvKeys(c, ok)
       \/ InvDel(c, ok)
       \/ InvReturn(c)
       \/ QueryStart(c)
       \/ QueryGet(c, ok)
       \/ QueryFind(c, ok)
       \/ QuerySet(c, ok)
SpecCacheOps == InitCache /\ [][NextCacheOps]_vars

\* validators queries and the two cache-clearing mutations, callers interleaved
MayStartStale == Len(gcHist) + Cardinality(InFlight) < MaxStaleCalls
NextCacheStale ==
  \E c \in Callers, ok \in BOOLEAN :
    \/ MayStartStale /\ QueryBegin(c)
    \/ QueryGet(c, ok)
    \/ QueryFind(c, ok)
    \/ QuerySet(c, ok)
    \/ MayStartStale /\ \E op \in Mutations : InvBegin(c, op, ClearAllPattern, ok)
    \/ InvKeys(c, ok)
    \/ InvDel(c, ok)
    \/ InvReturn(c)
SpecCacheStale == InitCache /\ [][NextCacheStale]_vars

\* ---- scoring -------------------------------------------------------------
InitScoreFn == RLInit /\ rlMax = 1 /\ rlWindow = 1000 /\ SchInit /\ TkInit
               /\ secondaryUp = TRUE /\ GcInit /\ SjInit /\ SvInit /\ FvInit /\ FnInit
NextScoreFn == FnScoreAll \/ FnLegacy \/ FnRunScoring
SpecScoreFn == InitScoreFn /\ [][NextScoreFn]_vars

InitScoreJob == InitAll
NextScoreJob ==
  \/ SjUpsert
  \/ \E j \in ScoreJobs :
       \/ SjStart(j)
       \/ \E ok \in BOOLEAN : SjFind(j, ok) \/ SjCreateRun(j, ok)
       \/ SjBatchStart(j)
       \/ \E k \in Entities, ok \in BOOLEAN : SjSettle(j, k, ok)
       \/ SjBatchEnd(j)
       \/ SjFinish(j)
       \/ SjCatch(j)
SpecScoreJob == InitScoreJob /\ [][NextScoreJob]_vars

\* the ScoringRun table under every component that writes it: the score job
\* invoked twice, one invocation after the other (overlapping invocations are
\* explored by SpecScoreJob), the legacy job, and the fetch job adding validators
SjStartNext(j) ==
  /\ \A i \in ScoreJobs \ {j} : sjJob[i].pc \in {"idle", "done"}
  /\ SjStart(j)

NextScoreRuns ==
  \/ SjUpsert
  \/ \E okRun \in BOOLEAN : LegacyScoreJob(okRun)
  \/ \E j \in ScoreJobs :
       \/ SjStartNext(j)
       \/ \E ok \in BOOLEAN : SjFind(j, ok) \/ SjCreateRun(j, ok)
       \/ SjBatchStart(j)
       \/ \E k \in Entities : SjSettle(j, k, TRUE)
       \/ SjBatchEnd(j)
       \/ SjFinish(j)
       \/ SjCatch(j)
SpecScoreRuns == InitAll /\ [][NextScoreRuns]_vars

\* ---- fetch job ---------------------------------------------------------------
InitFetch ==
  /\ RLInit /\ rlMax = 1 /\ rlWindow = 1000
  /\ SchInit
  /\ TkInit /\ secondaryUp = TRUE
  /\ GcInit
  /\ SjInit /\ SvInit /\ FvInitLists /\ FnIdle
NextFetch == FvStart \/ FvRecord(TRUE) \/ FvFinish
SpecFetch == InitFetch /\ [][NextFetch]_vars

\* the same job over a store that may fail any upsert
NextFetchFaults == FvStart \/ (\E ok \in BOOLEAN : FvRecord(ok)) \/ FvFinish
SpecFetchFaults == InitFetch /\ [][NextFetchFaults]_vars

\* ---- HTTP server -----------------------------------------------------------
\* the authorization gate: every credential on every route, from one address,
\* with a working store
NextServer ==
  \/ SvAdvance
  \/ \E authorization \in Authorizations, route \in Routes :
       Serve("ip1", authorization, route, TRUE)
\* the server starts with an empty cache or with the answer of an earlier
\* validators query in it
InitServer ==
  /\ RLInit /\ rlMax = 1 /\ rlWindow = 1000
  /\ SchInit
  /\ TkInit /\ secondaryUp = TRUE
  /\ gcNow = 0 /\ gcCall = [c \in Callers |-> IdleCall]
  /\ gcWrites = <<>> /\ gcHist = <<>>
  /\ gcStore \in {{}, set({}, cacheKey, DbResult, JUndefined, <<300>>, TRUE, 0)}
  /\ SjInit /\ SvInit /\ FvInit /\ FnIdle
SpecServer == InitServer /\ [][NextServer]_vars

\* the rate limiter in front of the routes: two addresses, callers with and
\* without a valid credential, the limiter's store free to fail
LimitAuthorizations ==
  {Header("none", ForgedToken), Header("Bearer", ViewerToken), Header("Bearer", AdminToken)}
LimitRoutes == {"GET /health", "validators", "clearCache"}
NextServerLimit ==
  \/ SvAdvance
  \/ \E ip \in ServerIps, authorization \in LimitAuthorizations, route \in LimitRoutes,
        ok \in BOOLEAN : Serve(ip, authorization, route, ok)
SpecServerLimit == InitServer /\ [][NextServerLimit]_vars

(***************************************************************************)
(*                     RATE LIMITER: CLAIMS C1 - C4                        *)
(***************************************************************************)

Admitted == {i \in 1..Len(rlHist) : rlHist[i].allowed}
AdmittedBefore(i, lo) == {j \in Admitted : j < i /\ rlHist[j].t >= lo}
Occurrences(seq, x) == Cardinality({i \in 1..Len(seq) : seq[i] = x})

\* C1: with a working store and checks run one at a time, a check at time t is
\* admitted exactly when fewer than maxRequests earlier admitted checks have a
\* timestamp >= t - windowMs; so the first maxRequests checks are admitted and
\* the next check inside the window of the first is rejected; and the store holds
\* no timestamp of a rejected check.
C1_AdmittedIffUnderLimit ==
  /\ \A i \in 1..Len(rlHist) :
       rlHist[i].allowed <=>
         Cardinality(AdmittedBefore(i, rlHist[i].t - rlWindow)) < rlMax
  /\ \A i \in 1..Len(rlHist) :
       /\ i <= rlMax => rlHist[i].allowed
       /\ (i = rlMax + 1 /\ rlHist[i].t - rlWindow <= rlHist[1].t) => ~rlHist[i].allowed
  /\ RLAllIdle =>
       \A i \in 1..Len(rlSet) :
         Occurrences(rlSet, rlSet[i]) <=
           Cardinality({j \in Admitted : rlHist[j].t = rlSet[i]})

\* C1 witness: maxRequests = 2, two checks were admitted, the third was rejected
\* inside the window and a later check, after the window, was admitted again
C1_Witness ==
  /\ rlMax = 2
  /\ Len(rlHist) >= 4
  /\ rlHist[1].allowed /\ rlHist[2].allowed /\ ~rlHist[3].allowed /\ rlHist[4].allowed

\* C2: every rejected check returns retryAfter > 0 and a resetTime later than
\* the time of the check
C2_RejectedRetryAfterPositive ==
  \A i \in 1..Len(rlHist) :
    ~rlHist[i].allowed => (rlHist[i].retryAfter > 0 /\ rlHist[i].resetTime > rlHist[i].t)

\* C3: also when checks of one key run concurrently, the admitted requests whose
\* timestamps lie inside any span of windowMs never number more than maxRequests
C3_WindowNeverExceedsLimit ==
  \A i \in Admitted :
    Cardinality({j \in Admitted :
                   rlHist[i].t <= rlHist[j].t /\ rlHist[j].t < rlHist[i].t + rlWindow})
      <= rlMax

\* C4: the limiter fails open: a check in which a store operation failed (count
\* read, oldest-entry read, timestamp write or expiry set) returns allowed = true
\* and the middleware passes the request on
C4_FailOpen ==
  /\ \A i \in 1..Len(rlHist) :
       rlHist[i].err # "none" => (rlHist[i].allowed /\ rlHist[i].out = "next")
  /\ \A p \in Reqs :
       (rlPc[p] = "respond" /\ rlErr[p] # "none") => rlRes[p].allowed

\* C4 witness: each of the four store operations has failed in some answered check
\* of the behaviour's two failures; here the oldest-entry read and the write
C4_Witness ==
  /\ \E i \in 1..Len(rlHist) : rlHist[i].err = "oldest" /\ rlHist[i].out = "next"
  /\ \E i \in 1..Len(rlHist) : rlHist[i].err \in {"zadd", "expire", "count"}

(***************************************************************************)
(*                          SCHEDULER: CLAIM C5                            *)
(***************************************************************************)

RegsOf(name) == {r \in repeatables : r.name = name}
LastCall == schLog[Len(schLog)]
ConfigOf(mode) == IF mode = "test" THEN TEST_CONFIG ELSE PRODUCTION_CONFIG

\* C5: after any sequence of setup calls run one after another, whenever the last
\* command that returned is a setup, the queue holds exactly one repeatable
\* registration for fetch and exactly one for score, with the intervals of that
\* last setup's preset
C5_SetupIdempotent ==
  (SchAllIdle /\ Len(schLog) > 0 /\ LastCall.cmd = "setup") =>
    /\ Cardinality(RegsOf("fetch")) = 1
    /\ Cardinality(RegsOf("score")) = 1
    /\ Cardinality(repeatables) = 2
    /\ \A r \in RegsOf("fetch") : r.every = ConfigOf(LastCall.mode).fetchInterval
    /\ \A r \in RegsOf("score") : r.every = ConfigOf(LastCall.mode).scoreInterval

\* C5 witness: setup(fast), setup(slow) and setup(slow) again have returned
C5_Witness ==
  /\ SchAllIdle
  /\ Len(schLog) = 3
  /\ schLog[1] = [cmd |-> "setup", mode |-> "test"]
  /\ schLog[2] = [cmd |-> "setup", mode |-> "production"]
  /\ schLog[3] = [cmd |-> "setup", mode |-> "production"]
  /\ Cardinality(repeatables) = 2

(***************************************************************************)
(*                 WORKER AND HANDLERS: CLAIMS C6 - C10                    *)
(***************************************************************************)

AttemptEnded(j) == att[j].outcome # "none"
AuditOf(j) == {a \in auditLog : a.task = j}

C6_State(j) ==
  /\ tk[j].activations <= 3
  /\ tk[j].failedEvents = tk[j].attemptsMade
  /\ Len(tk[j].delays) <= 2
  /\ tk[j].delays = SubSeq(<<2000, 4000>>, 1, Len(tk[j].delays))
  /\ tk[j].state = "delayed" => Len(tk[j].delays) = tk[j].attemptsMade
  /\ tk[j].state = "failed" =>
       (tk[j].attemptsMade = 3 /\ tk[j].activations = 3 /\ att[j].outcome = "threw")
  /\ att[j].outcome = "threw" => tk[j].state \in {"delayed", "failed"}
  /\ att[j].outcome = "returned" <=> tk[j].state = "completed"

C6_Step(j) ==
  /\ tk[j].state = "failed" => tk'[j] = tk[j]
  /\ tk[j].state = "completed" => tk'[j] = tk[j]
  /\ (wk[j].pc = "jobCatch" /\ wk'[j].pc = "idle") =>
       /\ tk'[j].failedEvents = tk[j].failedEvents + 1
       /\ tk'[j].state = IF tk[j].attemptsMade < 2 THEN "delayed" ELSE "failed"
  /\ (wk[j].pc = "jobReturn" /\ wk'[j].pc = "idle") => tk'[j].state = "completed"

C7_AuditOnlyAfterRetriesExhausted ==
  \A j \in Tasks :
    /\ tk[j].state = "failed" => Cardinality(AuditOf(j)) = 1
    /\ tk[j].state \in {"delayed", "waiting", "active", "completed"} => AuditOf(j) = {}

\* C8: a fetch that fails on every endpoint it tries ends its task attempt as
\* failed (retried or failed for good), never completed
C8_FetchFailureFailsTask ==
  (AttemptEnded("fetch") /\ att["fetch"].fetchFailed) =>
    (att["fetch"].outcome = "threw" /\ tk["fetch"].state \in {"delayed", "failed"})

\* C9 as claimed: whenever the primary endpoint fails, whatever the error, and
\* the secondary would succeed, the fetch calls the secondary, returns and
\* upserts every fetched record
C9_FailoverOnAnyPrimaryFailure ==
  (AttemptEnded("fetch") /\ att["fetch"].primaryErr # "none" /\ secondaryUp) =>
    /\ att["fetch"].secondaryCalls >= 1
    /\ att["fetch"].outcome = "returned"
    /\ att["fetch"].upserted = Records

\* C9 as amended: when the primary's last retry fails with a rate-limit signal
\* and the secondary would succeed, the fetch calls the secondary, the task
\* completes and every fetched record is processed (upserted unless its own
\* validation or upsert fails); after any other primary failure the secondary
\* is never called and nothing is upserted
C9_FailoverOnRateLimit ==
  /\ (AttemptEnded("fetch") /\ att["fetch"].primaryErr = "rate" /\ secondaryUp) =>
       /\ att["fetch"].secondaryCalls >= 1
       /\ att["fetch"].outcome = "returned"
       /\ tk["fetch"].state = "completed"
       /\ att["fetch"].fetched
       /\ att["fetch"].upserted \union att["fetch"].rejected = Records
       /\ att["fetch"].upserted \subseteq validators
  /\ att["fetch"].primaryErr = "other" =>
       (att["fetch"].secondaryCalls = 0 /\ att["fetch"].upserted = {} /\ ~att["fetch"].fetched)

\* C9 witness: three rate-limited primary calls, one secondary call, task
\* completed with every record upserted
C9_Witness ==
  /\ att["fetch"].primaryErr = "rate" /\ att["fetch"].primaryCalls = 3
  /\ att["fetch"].secondaryCalls = 1
  /\ tk["fetch"].state = "completed"
  /\ att["fetch"].upserted = Records

\* C10: the handler of an attempt is invoked only after a successful probe of
\* the store: the first one, or the one that follows the single reconnect; at
\* most one reconnect is made per attempt; when it fails the attempt throws
\* 'Database connection unavailable' and its handler is never invoked
C10_ProbeBeforeHandler ==
  \A j \in Tasks :
    /\ att[j].reconnects <= 1
    /\ att[j].reconnects = 1 => att[j].probe1 = "failed"
    /\ att[j].handler =>
         \/ att[j].probe1 = "ok" /\ att[j].reconnects = 0
         \/ att[j].probe1 = "failed" /\ att[j].reconnects = 1 /\ att[j].probe2 = "ok"
    /\ att[j].probe2 = "failed" =>
         /\ ~att[j].handler
         /\ wk[j].pc \in {"jobCatch", "idle"}
         /\ wk[j].pc = "jobCatch" => wk[j].thrown = "Database connection unavailable"
         /\ AttemptEnded(j) =>
              (att[j].outcome = "threw" /\ att[j].error = "Database connection unavailable")

\* C10 witness: an attempt of the score task ended on a failed reconnect, and an
\* attempt of the fetch task ran its handler after a successful reconnect
C10_Witness ==
  /\ att["score"].probe2 = "failed" /\ att["score"].outcome = "threw"
  /\ att["fetch"].probe2 = "ok" /\ att["fetch"].handler


(***************************************************************************)
(*                    GRAPHQL CACHE: CLAIMS C11 - C15                      *)
(***************************************************************************)

\* the call logged at i is get(q, v) and the call before it was a set(q, v, data)
\* that reached the store
GetFollowsSet(i) ==
  /\ i >= 2
  /\ gcHist[i].op = "get" /\ ~gcHist[i].failed
  /\ gcHist[i - 1].op = "set" /\ ~gcHist[i - 1].failed
  /\ gcHist[i].q = gcHist[i - 1].q /\ gcHist[i].v = gcHist[i - 1].v

\* C11: with a working store and before expiry, set(q, v, data) followed by
\* get(q, v) returns data unchanged and is a hit, never the answer of a miss
\* (null), for every JSON value data
C11_RoundTripIsHit ==
  \A i \in 1..Len(gcHist) :
    GetFollowsSet(i) =>
      /\ gcHist[i].res = gcHist[i - 1].data
      /\ gcHist[i].res # JNull

\* C12: after one set(q, v, data) on an empty cache, get(q', v') is a miss
\* whenever (q', v') differs from (q, v)
C12_KeysSeparatePairs ==
  (/\ Len(gcHist) >= 2
   /\ gcHist[1].op = "set" /\ gcHist[2].op = "get"
   /\ <<gcHist[2].q, gcHist[2].v>> # <<gcHist[1].q, gcHist[1].v>>)
    => gcHist[2].res = JNull


\* the get calls logged that followed at least one set
GetsAfterSet == {i \in 1..Len(gcHist) : gcHist[i].op = "get" /\ gcHist[i].nw > 0}
LastWrite(i) == gcWrites[gcHist[i].nw]

\* C13 as stated: an entry written with a TTL of t seconds is a hit at any time
\* before t seconds have passed and a miss at any time after, unless it is set
\* again; with no TTL given the TTL is 300 seconds
C13_TtlAsGiven ==
  \A i \in GetsAfterSet :
    LET w == LastWrite(i)
        ttl == IF w.options = <<>> THEN 300 ELSE w.options[1]
    IN  /\ gcHist[i].t < w.t + ttl * 1000 => gcHist[i].res = w.data
        /\ gcHist[i].t > w.t + ttl * 1000 => gcHist[i].res = JNull

\* C13 amended: the same for a TTL that is a positive whole number of seconds;
\* with no TTL given, or a TTL of 0, the TTL is 300 seconds
C13_TtlPositiveOrDefault ==
  \A i \in GetsAfterSet :
    LET w == LastWrite(i)
        ttl == IF w.options = <<>> \/ w.options = <<0>> THEN 300 ELSE w.options[1]
    IN  /\ gcHist[i].t < w.t + ttl * 1000 => gcHist[i].res = w.data
        /\ gcHist[i].t > w.t + ttl * 1000 => gcHist[i].res = JNull

\* C13 witness: an entry set with no TTL was a hit after 299 seconds and a miss
\* after 301 seconds
C13_Witness ==
  \E i \in GetsAfterSet, k \in GetsAfterSet :
    /\ gcHist[i].nw = gcHist[k].nw
    /\ LastWrite(i).options = <<>>
    /\ gcHist[i].t = LastWrite(i).t + 299000 /\ gcHist[i].res = LastWrite(i).data
    /\ gcHist[k].t = LastWrite(i).t + 301000 /\ gcHist[k].res = JNull


C15_InvalidateComplete ==
  \A i \in 1..Len(gcHist) :
    (gcHist[i].op \in InvalidateOps /\ ~gcHist[i].raised) => gcHist[i].left = {}


(***************************************************************************)
(*                       SCORING: CLAIMS C16 - C20                         *)
(***************************************************************************)

ScoresOfRun(id) == {n \in 1..Len(sjScores) : sjScores[n].scoringRunId = id}
JobReturnedWithRun(j) ==
  sjJob[j].pc = "done" /\ sjJob[j].outcome = "returned" /\ sjJob[j].run # 0

\* C16: every TrustScore a score job creates references the ScoringRun that the
\* same invocation created at its start, a run that exists when the score is
\* written; the scores of a run never outnumber the validators the invocation
\* read, and a run has at most one score per validator
C16_RunReferentialIntegrity ==
  /\ \A n \in 1..Len(sjScores) :
       /\ sjScores[n].scoringRunId = sjJob[sjScores[n].by].run
       /\ \E r \in sjRuns : r.id = sjScores[n].scoringRunId /\ r.runDate = sjScores[n].by
  /\ \A r \in sjRuns :
       /\ Cardinality(ScoresOfRun(r.id)) <= Len(sjJob[r.runDate].read)
       /\ \A n \in ScoresOfRun(r.id), m \in ScoresOfRun(r.id) :
            sjScores[n].validatorId = sjScores[m].validatorId => n = m

\* C16 witness: two invocations ran at once, each created its run, and a score
\* of the run created first was written after a score of the run created second
C16_Witness ==
  \E n \in 1..Len(sjScores), m \in 1..Len(sjScores) :
    /\ n < m
    /\ sjScores[n].scoringRunId = 2 /\ sjScores[m].scoringRunId = 1
    /\ Cardinality(sjRuns) = 2

\* C17: of the N validators a score job read, any k may fail in scoring or in
\* persisting; the job still processes all N, does not raise, and ends with
\* failCount = k and successCount = N - k = the scores created for its run
C17_BatchFaultIsolation ==
  \A j \in ScoreJobs :
    /\ sjJob[j].outcome = "threw" => sjJob[j].run = 0
    /\ JobReturnedWithRun(j) =>
         /\ sjJob[j].failCount = Cardinality(sjJob[j].bad)
         /\ sjJob[j].successCount = Len(sjJob[j].read) - Cardinality(sjJob[j].bad)
         /\ sjJob[j].successCount = Cardinality(ScoresOfRun(sjJob[j].run))

\* C17 witness: a job over three validators, in two batches, returned after the
\* first validator of its first batch failed and the other two were scored
C17_Witness ==
  \E j \in ScoreJobs :
    /\ JobReturnedWithRun(j)
    /\ Len(sjJob[j].read) = 3 /\ sjJob[j].bad = {1}
    /\ sjJob[j].successCount = 2 /\ sjJob[j].failCount = 1

\* C18: every TrustScore value persisted by a scoring code path
\* (scoreAllValidatorsJob, scoreValidatorsJob, runScoringForValidator) lies in
\* [0, 100], whatever uptime and commission are stored
C18_ScoresWithinBounds ==
  \A row \in fnScores : 0 <= row.score /\ row.score <= 100 * Unit

IntegerInput == fnIn.uptime % Unit = 0 /\ (fnIn.commission = <<>> \/ fnIn.commission[1] % Unit = 0)
Expected(u, c) ==
  LET raw == u - (IF c = <<>> THEN 5 * Unit ELSE c[1])
  IN  IF raw < 0 THEN 0 ELSE IF raw > 100 * Unit THEN 100 * Unit ELSE raw

\* C19: for integer uptime and integer or null commission, calculateTrustScore
\* gives min(100, max(0, uptime - (commission if not null, else 5))); commission 0
\* is a value, not an absence; score(98, null) = 93, score(50, 80) = 0 and
\* score(100, 0) = 100
C19_ScoreFormula ==
  \A row \in fnScores :
    (row.path = "scoreAllValidatorsJob" /\ IntegerInput) =>
      /\ row.score = Expected(fnIn.uptime, fnIn.commission)
      /\ (fnIn.uptime = 98 * Unit /\ fnIn.commission = <<>>) => row.score = 93 * Unit
      /\ (fnIn.uptime = 50 * Unit /\ fnIn.commission = <<80 * Unit>>) => row.score = 0
      /\ (fnIn.uptime = 100 * Unit /\ fnIn.commission = <<0>>) => row.score = 100 * Unit

\* C19 witness: the score of uptime 100 and commission 0 was computed and is 100
C19_Witness ==
  /\ fnIn.uptime = 100 * Unit /\ fnIn.commission = <<0>>
  /\ [path |-> "scoreAllValidatorsJob", score |-> 100 * Unit] \in fnScores

\* C20: when a score job completes, the ScoringRun it created holds the final
\* status and the success and fail counts of the job
C20_RunFinalized ==
  \A j \in ScoreJobs :
    JobReturnedWithRun(j) =>
      \E r \in sjRuns :
        /\ r.id = sjJob[j].run
        /\ {"status", "successCount", "failCount"} \subseteq DOMAIN r
        /\ r.status = "completed"
        /\ r.successCount = sjJob[j].successCount
        /\ r.failCount = sjJob[j].failCount

(***************************************************************************)
(*                 SCORING RUNS AND ACCESS: CLAIMS C21 - C22               *)
(***************************************************************************)

RunsCreatedBy(j) == {r \in sjRuns : r.runDate = j}
JobReturned(j) == sjJob[j].pc = "done" /\ sjJob[j].outcome = "returned"

\* C21 as stated: every invocation of the score job that returns has created
\* exactly one ScoringRun, whatever the number of validators stored, none
\* included
C21_OneRunPerInvocation ==
  \A j \in ScoreJobs : JobReturned(j) => Cardinality(RunsCreatedBy(j)) = 1

\* C21: an invocation of the score job that finds at least one validator and
\* returns has created exactly one ScoringRun, one that finds none has created
\* none, no invocation ever creates more than one, and a ScoringRun that exists
\* is never updated or deleted by any step of a score job, of the legacy job or
\* of the fetch job
C21_OneRunPerScoringInvocation ==
  /\ [](\A j \in ScoreJobs :
         /\ Cardinality(RunsCreatedBy(j)) <= 1
         /\ JobReturned(j) =>
              Cardinality(RunsCreatedBy(j)) = (IF sjJob[j].read = <<>> THEN 0 ELSE 1))
  /\ [][\A r \in sjRuns : r \in sjRuns']_vars

\* C21 witness: three runs exist, the first created by an invocation of the
\* score job that has returned, the later ones by the other invocation and by
\* the legacy job
C21_Witness ==
  /\ Cardinality(sjRuns) = 3
  /\ \E j \in ScoreJobs : JobReturned(j) /\ sjJob[j].run = 1
  /\ [id |-> 3, runDate |-> "legacy"] \in sjRuns

ProtectedOps == {"users", "scoringRuns", "systemStats", "cacheStatus", "clearCache",
                 "invalidateValidatorCache", "POST /cache/clear"}

\* the caller presented a bearer token that verifies and has not expired
ValidCredential(h) == h.scheme = "Bearer" /\ h.token.signed /\ ~h.token.expired

\* the caller is authenticated and holds what the operation requires
Authorized(h, route) ==
  /\ ValidCredential(h)
  /\ CASE route = "users" -> "read:users" \in h.token.payload.permissions
       [] route = "scoringRuns" -> "read:scores" \in h.token.payload.permissions
       [] route = "systemStats" -> h.token.payload.role = "admin"
       [] OTHER -> "admin:system" \in h.token.payload.permissions

\* C22: a protected operation (users, scoringRuns, systemStats, cacheStatus,
\* clearCache, invalidateValidatorCache, POST /cache/clear) calls the Persistence
\* Gateway or the cache only for a caller that is authenticated and holds the
\* required permission or role (admin:system for the cache operations); for every
\* other caller it is denied and the cache is left as it was; and no request
\* changes the stored tables
C22_AuthorizationGate ==
  /\ [](svLast.route \in ProtectedOps =>
         /\ (svLast.db # {} \/ svLast.cache # {} \/ svLast.cacheAfter # svLast.cacheBefore)
              => Authorized(svLast.authorization, svLast.route)
         /\ ~Authorized(svLast.authorization, svLast.route) =>
              /\ svLast.outcome \in {"denied", "429"}
              /\ svLast.db = {} /\ svLast.cache = {}
              /\ svLast.cacheAfter = svLast.cacheBefore)
  /\ [][svCount' # svCount => UNCHANGED <<tkVars, sjVars, fvVars>>]_vars

\* C22 witness: with an entry in the cache, clearCache was called with a bearer
\* token that carries the admin permissions but does not verify, and was denied
C22_Witness ==
  /\ svLast.route = "clearCache"
  /\ svLast.authorization = Header("Bearer", ForgedToken)
  /\ svLast.outcome = "denied"
  /\ svLast.cacheBefore # {}

(***************************************************************************)
(*                    RATE LIMITER: CLAIM C23                              *)
(***************************************************************************)

\* C23: when a check is rejected with retryAfter = r and resetTime = T and the
\* caller's next check is made r seconds after the rejection, or at any time at
\* or after T, that next check is admitted
C23_AdmittedAfterReset ==
  \A i \in 1..(Len(rlHist) - 1) :
    (/\ ~rlHist[i].allowed
     /\ \/ rlHist[i + 1].t = rlHist[i].t + rlHist[i].retryAfter * 1000
        \/ rlHist[i + 1].t >= rlHist[i].resetTime)
    => rlHist[i + 1].allowed

(***************************************************************************)
(*                     WORKER POOL: CLAIM C25                              *)
(***************************************************************************)

OwnAdmittedInWindow ==
  LET sent == svSent[<<svLast.ip, svLast.identity>>]
  IN  {i \in 1..Len(sent) : sent[i] >= svLast.t - ServerWindowMs}

\* C24: the windows are keyed by (source address, caller identity): a caller with
\* a valid credential is rejected only when its own admitted requests from that
\* address fill the window, whatever other callers behind the address have sent,
\* and only a request without a valid credential is counted under the anonymous
\* marker
C24_WindowPerCaller ==
  /\ (svLast.outcome = "429" /\ svLast.credential) =>
       Cardinality(OwnAdmittedInWindow) >= ServerMaxRequests
  /\ (svLast.route # "none" /\ svLast.key[2] = "anonymous") => ~svLast.credential

\* C29: a request the rate limiter rejects is answered 429 with retryAfter
\* seconds and is not passed on: neither authMiddleware nor a handler runs for it,
\* no cache method and no Persistence Gateway call is made and the cache is left
\* as it was; a request it admits carries X-RateLimit-Limit, X-RateLimit-Remaining
\* and X-RateLimit-Reset, with Remaining within [0, limit]
C29_RejectedNotPassedOn ==
  /\ ~svLast.allowed =>
       /\ svLast.status = 429 /\ svLast.retryAfter # <<>>
       /\ ~svLast.authRan /\ ~svLast.handlerRan
       /\ svLast.db = {} /\ svLast.cache = {}
       /\ svLast.cacheAfter = svLast.cacheBefore
  /\ (svLast.route # "none" /\ svLast.allowed) =>
       /\ {"X-RateLimit-Limit", "X-RateLimit-Remaining", "X-RateLimit-Reset"}
            \subseteq svLast.headers
       /\ svLast.limit = ServerMaxRequests
       /\ 0 <= svLast.remaining /\ svLast.remaining <= svLast.limit
       /\ svLast.status # 429

\* C29 witness: with an entry in the cache, clearCache sent with the admin's valid
\* token was rejected by the limiter, and the entry is still in the cache
C29_Witness ==
  /\ ~svLast.allowed
  /\ svLast.route = "clearCache"
  /\ svLast.authorization = Header("Bearer", AdminToken)
  /\ svLast.cacheBefore # {} /\ gcStore = svLast.cacheBefore

\* C30: GET /health is not rate limited: it is never answered 429 and is never
\* recorded in the caller's window, whatever the caller has sent before
C30_HealthNotRateLimited ==
  svLast.route = "GET /health" => (svLast.status # 429 /\ ~svLast.recorded)

(***************************************************************************)
(*                     FETCH JOB: CLAIMS C26 - C27                         *)
(***************************************************************************)

\* the Validator rows a run of the fetch job kept from the table it found
KeepsEveryEntity ==
  \A r \in fvTable : \E r2 \in fvTable' : r2.voteAccount = r.voteAccount

\* the second run over the list left the table the first run left
SecondRunChangesNothing ==
  Len(fvAfter) >= 2 => fvAfter[2] = fvAfter[1]

\* C26: running the fetch job twice over the same list of remote records
\* leaves the same set of Entities, with the same attribute values, as running
\* it once; fetch never deletes an Entity and never creates a second Entity for
\* a vote account (or validator public key) that already has one.
C26_FetchIdempotent ==
  /\ [](SecondRunChangesNothing)
  /\ [][KeepsEveryEntity]_vars
  /\ [](UniqueKeys(fvTable))

WithinRanges(row) ==
  /\ row.uptime >= 0 /\ row.uptime <= 100 * Unit
  /\ row.commission = <<>>
       \/ (row.commission[1] >= 0 /\ row.commission[1] <= 100 * Unit)

\* the records of the list the running job has already been through
Processed ==
  IF fvJob.pc = "loop" THEN 1..(fvJob.i - 1) ELSE {}

\* C27: every Entity persisted by a fetch job has uptime within [0, 100] and a
\* commission that is absent or within [0, 100]; a remote record whose derived
\* uptime or commission is outside these ranges is rejected as a per-record
\* validation failure, counted in failCount, and not stored.
C27_StoredWithinRanges ==
  /\ \A r \in fvTable : WithinRanges(r)
  /\ \A i \in Processed :
       ~WithinRanges(SchemaInput(fvList[i])) =>
         /\ i \in fvJob.invalid
         /\ i \notin fvJob.stored
         /\ fvJob.failCount >= 1
         /\ SchemaInput(fvList[i]) \notin fvTable

(***************************************************************************)
(*                       SCHEDULER: CLAIM C28                              *)
(***************************************************************************)

\* the hours a finished task is kept under a retention option {age}: the queue
\* reads age as a number of seconds. The option holds age / 1000 here, so the
\* hours are (age / 1000) * 1000 / 3600
KeptHours(age) == (age * 10) \div 36

\* the presets as stated: intervals in milliseconds, retention in hours
StatedPreset(mode) ==
  IF mode = "test"
    THEN [fetchEvery |-> 30 * 1000, scoreEvery |-> 60 * 1000,
          completedHours |-> 1, failedHours |-> 24]
    ELSE [fetchEvery |-> 6 * 60 * 60 * 1000, scoreEvery |-> 6 * 60 * 60 * 1000,
          completedHours |-> 7 * 24, failedHours |-> 30 * 24]

\* the last command was a setup and has returned
SetupReturned ==
  /\ SchAllIdle
  /\ Len(schLog) > 0
  /\ schLog[Len(schLog)].cmd = "setup"

RegisteredEvery(jobId, every) ==
  \E r \in repeatables : r.id = jobId /\ r.every = every

IntervalsAsStated ==
  SetupReturned =>
    LET p == StatedPreset(schLog[Len(schLog)].mode)
    IN  /\ RegisteredEvery("fetch-repeatable", p.fetchEvery)
        /\ RegisteredEvery("score-repeatable", p.scoreEvery)

RetentionAsStated ==
  SetupReturned =>
    LET p == StatedPreset(schLog[Len(schLog)].mode)
    IN  \A r \in repeatables :
          /\ KeptHours(r.removeOnComplete) = p.completedHours
          /\ KeptHours(r.removeOnFail) = p.failedHours

\* every registration carries an age for both kinds of finished task
RetentionBounded ==
  \A r \in repeatables : r.removeOnComplete > 0 /\ r.removeOnFail > 0

\* C28: setup(fast) registers fetch every 30 s and score every 60 s with
\* completed tasks purged after 1 hour and failed tasks after 24 hours;
\* setup(slow) registers both every 6 hours with completed tasks purged after 7
\* days and failed tasks after 30 days, the ages being what the queue's retention
\* option makes of the configured numbers; in both presets no completed or
\* failed task is retained without bound.
C28_SchedulerPresets ==
  /\ IntervalsAsStated
  /\ RetentionAsStated
  /\ RetentionBounded

(***************************************************************************)
(*                     ADMIN ACCESS: CLAIM C31                             *)
(***************************************************************************)

AdminOps == {"users", "scoringRuns", "systemStats", "cacheStatus", "clearCache",
             "invalidateValidatorCache"}

\* the last request reached its resolver with the admin's token
AdminReached(route) ==
  /\ svLast.route = route
  /\ svLast.authorization = Header("Bearer", AdminToken)
  /\ svLast.handlerRan

\* C31: a caller whose token carries the admin role with the documented admin
\* permission set is authorized for every protected query and mutation: users,
\* scoringRuns, systemStats, cacheStatus, clearCache, invalidateValidatorCache.
C31_AdminFullAccess ==
  \A route \in AdminOps : AdminReached(route) => svLast.outcome # "denied"

(***************************************************************************)
(*                       FETCH RETRY: CLAIM C32                            *)
(***************************************************************************)

IsPrefix(a, b) == Len(a) <= Len(b) /\ \A i \in 1..Len(a) : a[i] = b[i]

\* the fetch handler is about to call an endpoint
FetchCalling == wk["fetch"].pc = "fetchCall"

\* C32: one fetch makes at most 3 calls to the primary endpoint and at most 3
\* to the secondary and then returns the records or fails; the waits between
\* consecutive calls to one endpoint are 1000 ms then 2000 ms; the secondary
\* endpoint is never called before the primary's retries are exhausted.
C32_FetchRetryBounded ==
  LET a == att["fetch"]
  IN  /\ a.primaryCalls <= 3 /\ a.secondaryCalls <= 3
      /\ (FetchCalling /\ wk["fetch"].endpoint = "primary") => a.primaryCalls < 3
      /\ (FetchCalling /\ wk["fetch"].endpoint = "secondary") => a.secondaryCalls < 3
      /\ (a.primaryCalls = 3 /\ a.secondaryCalls = 3 /\ ~FetchCalling) =>
           (a.fetched \/ a.fetchFailed)
      /\ IsPrefix(a.primaryWaits, <<1000, 2000>>)
      /\ IsPrefix(a.secondaryWaits, <<1000, 2000>>)
      /\ Len(a.primaryWaits) <= a.primaryCalls
      /\ Len(a.secondaryWaits) <= a.secondaryCalls
      /\ (a.fetchFailed /\ a.primaryCalls > 0) => Len(a.primaryWaits) = a.primaryCalls - 1
      /\ (a.secondaryCalls > 0 \/ (FetchCalling /\ wk["fetch"].endpoint = "secondary")) =>
           a.primaryCalls = 3

\* C32 witness: three failed calls to each endpoint, the waits taken, the fetch
\* has failed
C32_Witness ==
  /\ att["fetch"].primaryCalls = 3 /\ att["fetch"].secondaryCalls = 3
  /\ att["fetch"].primaryWaits = <<1000, 2000>>
  /\ att["fetch"].secondaryWaits = <<1000, 2000>>
  /\ att["fetch"].fetchFailed

(***************************************************************************)
(*                  FETCH FAULT ISOLATION: CLAIM C33                       *)
(***************************************************************************)

FetchFailedRecords == fvJob.invalid \union fvJob.refused

\* the fetch job has returned from a run over the list
FetchReturned == fvJob.pc = "idle" /\ Len(fvAfter) > 0

\* the records attempted so far are the first ones of the list, each once, and
\* the two counters count them
AttemptedInOrder ==
  fvJob.pc = "loop" =>
    /\ fvJob.stored \union FetchFailedRecords = 1..(fvJob.i - 1)
    /\ fvJob.stored \cap FetchFailedRecords = {}
    /\ fvJob.successCount = Cardinality(fvJob.stored)
    /\ fvJob.failCount = Cardinality(FetchFailedRecords)

\* a step of the loop attempts the next record of the list, and a record it
\* counts as a success is in the table
NextRecordAttempted ==
  (fvJob.pc = "loop" /\ fvJob'.pc = "loop" /\ fvJob' # fvJob) =>
    /\ fvJob'.i = fvJob.i + 1
    /\ fvJob.i \in fvJob'.stored \union fvJob'.invalid \union fvJob'.refused
    /\ fvJob.i \in fvJob'.stored => SchemaInput(fvList[fvJob.i]) \in fvTable'

\* the loop is left only by returning, after the last record
LoopLeftAtEnd ==
  (fvJob.pc = "loop" /\ fvJob'.pc # "loop") =>
    /\ fvJob.i = Len(fvList) + 1
    /\ fvAfter' = Append(fvAfter, fvTable)

\* C33: for any list of N fetched records of which any k fail validation or
\* upsert, the fetch job attempts all N in order, upserts the N - k valid ones,
\* ends with successCount = N - k and failCount = k, and does not fail the task
\* because of the k bad records.
C33_PerRecordIsolation ==
  /\ [](AttemptedInOrder)
  /\ [][NextRecordAttempted /\ LoopLeftAtEnd]_vars
  /\ [](FetchReturned =>
          /\ fvJob.stored \union FetchFailedRecords = 1..Len(fvList)
          /\ fvJob.failCount = Cardinality(FetchFailedRecords)
          /\ fvJob.successCount = Len(fvList) - Cardinality(FetchFailedRecords))

\* C33 witness: a run over two records returned; the first record failed, the
\* second was stored
C33_Witness ==
  /\ FetchReturned
  /\ Len(fvList) = 2
  /\ FetchFailedRecords = {1} /\ fvJob.stored = {2}
  /\ fvJob.successCount = 1 /\ fvJob.failCount = 1
  /\ SchemaInput(fvList[2]) \in fvTable

(***************************************************************************)
(*                 OVERLAPPING SCORE TASKS: CLAIM C34                      *)
(***************************************************************************)

\* the validators of its list a score job has settled so far
SettledCount(j) ==
  IF sjJob[j].pc = "await"
    THEN Min(sjJob[j].i + batchSize, Len(sjJob[j].read)) - Cardinality(sjJob[j].pending)
    ELSE Min(sjJob[j].i, Len(sjJob[j].read))

\* both score jobs are inside their batch loops at once
ScoreJobsOverlap ==
  \A j \in ScoreJobs : sjJob[j].pc \in {"batch", "await"} /\ sjJob[j].run # 0

\* a step that changes the counters of a job is that job settling one of its own
\* pending validators, and changes nothing of the other job
CountersOwn ==
  \A j \in ScoreJobs :
    (sjJob'[j].successCount # sjJob[j].successCount
       \/ sjJob'[j].failCount # sjJob[j].failCount) =>
      /\ \A i \in ScoreJobs \ {j} : sjJob'[i] = sjJob[i]
      /\ Cardinality(sjJob'[j].pending) = Cardinality(sjJob[j].pending) - 1
      /\ sjJob'[j].successCount + sjJob'[j].failCount
           = sjJob[j].successCount + sjJob[j].failCount + 1

\* C34: two score tasks that run concurrently create two distinct ScoringRuns,
\* every Score references the run of the task that wrote it, and each task's
\* successCount + failCount equals the number of Entities that task read;
\* neither task's counters are changed by the other.
C34_OverlappingScoreTasks ==
  /\ [](\A i \in ScoreJobs, j \in ScoreJobs :
          (i # j /\ sjJob[i].run # 0 /\ sjJob[j].run # 0) =>
            /\ sjJob[i].run # sjJob[j].run
            /\ \E r \in sjRuns : r.id = sjJob[i].run /\ r.runDate = i
            /\ \A r \in sjRuns : r.id = sjJob[i].run => r.runDate = i)
  /\ [](\A n \in 1..Len(sjScores) :
          sjScores[n].by \in ScoreJobs =>
            sjScores[n].scoringRunId = sjJob[sjScores[n].by].run)
  /\ [](\A j \in ScoreJobs :
          /\ sjJob[j].run # 0 /\ sjJob[j].pc # "catch" /\ sjJob[j].outcome # "threw" =>
               sjJob[j].successCount + sjJob[j].failCount = SettledCount(j)
          /\ JobReturnedWithRun(j) =>
               sjJob[j].successCount + sjJob[j].failCount = Len(sjJob[j].read))
  /\ [][CountersOwn]_vars

\* C34 witness: both jobs are waiting for their batches, each has its run and has
\* written a score, and one of them has counted a failure
C34_Witness ==
  /\ ScoreJobsOverlap
  /\ \A j \in ScoreJobs :
       /\ sjJob[j].pc = "await"
       /\ sjJob[j].successCount >= 1
  /\ \E j \in ScoreJobs : sjJob[j].failCount >= 1

(***************************************************************************)
(*                   BOUNDED FAN-OUT: CLAIM C35                            *)
(***************************************************************************)

\* the scores of job j's run for the validator at position k of the list it read
ScoresFor(j, k) ==
  {n \in ScoresOfRun(sjJob[j].run) :
     sjScores[n].by = j /\ sjScores[n].validatorId = sjJob[j].read[k].id}

\* a step that puts writes in flight does so when none of the job's earlier
\* writes is still in flight, and takes the validators that follow the ones
\* already attempted
BatchAfterBatch ==
  \A j \in ScoreJobs :
    ~(sjJob'[j].pending \subseteq sjJob[j].pending) =>
      /\ sjJob[j].pending = {}
      /\ sjJob[j].successCount + sjJob[j].failCount = sjJob[j].i
      /\ \A k \in sjJob'[j].pending : k > sjJob[j].i /\ ScoresFor(j, k) = {}
      /\ \A k \in 1..Len(sjJob[j].read) :
           (k > sjJob[j].i /\ k \notin sjJob'[j].pending) =>
             \A m \in sjJob'[j].pending : m < k

\* C35: at most batchSize Score writes of one score task are in flight at any
\* time; the first item of batch k+1 starts only after every item of batch k has
\* settled; each Entity read at job start is attempted exactly once.
C35_BoundedFanOut ==
  /\ [](\A j \in ScoreJobs : Cardinality(sjJob[j].pending) <= batchSize)
  /\ [][BatchAfterBatch]_vars
  /\ [](\A j \in ScoreJobs :
          /\ \A k \in 1..Len(sjJob[j].read) : Cardinality(ScoresFor(j, k)) <= 1
          /\ JobReturnedWithRun(j) =>
               \A k \in 1..Len(sjJob[j].read) :
                 Cardinality(ScoresFor(j, k)) = (IF k \in sjJob[j].bad THEN 0 ELSE 1))

\* C35 witness: a job over more validators than one batch holds has its second
\* batch in flight, after a first batch that was full
C35_Witness ==
  \E j \in ScoreJobs :
    /\ sjJob[j].pc = "await"
    /\ sjJob[j].i = batchSize
    /\ sjJob[j].pending # {}
    /\ sjJob[j].successCount + sjJob[j].failCount = batchSize

(***************************************************************************)
(*                  CACHE KEY CANONICAL FORM: CLAIM C36                    *)
(***************************************************************************)

\* the fields of a variables object, whatever the order they were written in
FieldsOf(v) == {<<v.s[i], v.items[i]>> : i \in 1..Len(v.s)}

SameFields(v, w) ==
  /\ v.kind = "object" /\ w.kind = "object"
  /\ Len(v.s) = Len(w.s)
  /\ FieldsOf(v) = FieldsOf(w)

\* C36: two variables objects with the same fields and values written in a
\* different property order address the same cache entry, so set with one
\* followed by get with the other is a hit.
C36_CanonicalVariables ==
  \A i \in 1..Len(gcHist) :
    (/\ i > 1
     /\ gcHist[i].op = "get" /\ gcHist[i - 1].op = "set"
     /\ gcHist[i].q = gcHist[i - 1].q
     /\ SameFields(gcHist[i].v, gcHist[i - 1].v))
      => gcHist[i].res # JNull

(***************************************************************************)
(*                 CACHE INVALIDATION RACE: CLAIM C37                      *)
(***************************************************************************)

\* the invalidations that emptied the cache and had returned when call i began
InvalidatedBefore(i) ==
  {k \in 1..Len(gcHist) :
     /\ gcHist[k].op \in Mutations
     /\ ~gcHist[k].raised /\ ~gcHist[k].failed
     /\ k <= gcHist[i].started}

\* the write a cache hit of call i was served from: the last one stored before it
StoredWrites(i) == {n \in 1..gcHist[i].nw : gcWrites[n].stored /\ gcWrites[n].q = cacheKey}
ServedFrom(i) == gcWrites[CHOOSE n \in StoredWrites(i) : \A m \in StoredWrites(i) : m <= n]

\* call i is a validators query answered from the cache
CacheHit(i) ==
  /\ gcHist[i].op = "validators" /\ ~gcHist[i].raised /\ gcHist[i].db = "none"
  /\ StoredWrites(i) # {}

\* C37: after invalidateValidatorCache or clearCache has returned, every
\* validators query that starts later returns data read from the database after
\* the invalidation, also when a validators query that missed the cache before
\* the invalidation is still in flight and writes its result afterwards.
C37_NoStaleAfterInvalidation ==
  \A i \in 1..Len(gcHist) :
    CacheHit(i) =>
      \A k \in InvalidatedBefore(i) :
        <<gcHist[k].by, gcHist[k].started>> \notin ServedFrom(i).old

(***************************************************************************)
(*                  CONCURRENT SETUP: CLAIM C38                            *)
(***************************************************************************)

\* setup has been called twice, nothing else was run, and both calls have returned
TwoSetupsReturned ==
  /\ SchAllIdle
  /\ Len(schLog) = 2
  /\ schLog[1].cmd = "setup" /\ schLog[2].cmd = "setup"

\* C38: two setup calls that run concurrently, with the same or with different
\* presets, each doing list-existing, remove-matching, add-fetch, add-score as
\* separate queue operations, leave exactly one repeatable registration per job
\* type once both have returned.
C38_ConcurrentSetups ==
  TwoSetupsReturned =>
    /\ Cardinality(RegsOf("fetch")) = 1
    /\ Cardinality(RegsOf("score")) = 1

(***************************************************************************)
(*                 SETUP ALL-OR-NOTHING: CLAIM C39                         *)
(***************************************************************************)

\* scheduler run s ends in this step with setup throwing
SetupThrows(s) ==
  /\ schPc[s] # "idle" /\ schPc'[s] = "idle"
  /\ schCmd[s] = "setup"
  /\ schLog' = Append(schLog, [cmd |-> "setup-threw", mode |-> schCfg[s].mode])

HasSchedule(regs, name) == \E r \in regs : r.name = name

\* C39: if a setup call throws part-way, the repeatable registrations are those
\* that existed before the call, so a failed re-setup never leaves a job type
\* without a schedule.
C39_SetupAllOrNothing ==
  [][\A s \in Scheds :
       SetupThrows(s) =>
         /\ repeatables' = schBefore[s]
         /\ \A name \in {"fetch", "score"} :
              HasSchedule(schBefore[s], name) => HasSchedule(repeatables', name)]_vars

(***************************************************************************)
(*               SHARED STORE CONNECTION: CLAIM C40                        *)
(***************************************************************************)

\* the score handler has read the validators through the shared prisma client
\* and has writes still to make through it
ScoreUsesStore ==
  wk["score"].pc \in {"scoreCreateRun", "scoreBatches"}

\* the fetch handler runs its finally block: prisma.$disconnect()
FetchDisconnects ==
  wk["fetch"].pc = "fetchFinally" /\ wk'["fetch"].pc # "fetchFinally"

\* C40: a fetch task that finishes, successfully or not, never disconnects the
\* store handle while a concurrently active score task of the same worker is
\* still reading or writing through it.
C40_NoDisconnectUnderActiveTask ==
  [][FetchDisconnects => ~ScoreUsesStore]_vars

================================================================================
